---------------------------- MODULE Spec2Model ----------------------------
(***************************************************************************)
(* Model of the resilience layer of the library-catalog service and of the *)
(* refactored order processing:                                            *)
(*   - CircuitBreaker / CircuitBreakerStats  (app/core/circuit_breaker.py) *)
(*   - SmartCacheManager                     (app/core/advanced_caching.py)*)
(*   - ResilientBookEnrichmentService        (app/core/circuit_breaker.py) *)
(*     and BookEnrichmentService        (app/services/external_apis.py)    *)
(*   - CacheService over Redis               (app/services/cache.py)       *)
(*   - ProcessadorPedido     (ecommerce_refatorado/processador_pedido.py)  *)
(* Each subsystem has its own specifications (SpecCB, SpecCBFair,          *)
(* SpecWindow; SpecCache, SpecLRU, SpecLFU, SpecExpiry, SpecValues,        *)
(* SpecFrame, SpecTTL; SpecEnrich; SpecRedis; SpecEcommerce); the          *)
(* variables of the other subsystems stay at their initial values.         *)
(***************************************************************************)
EXTENDS Integers, Naturals, Sequences, FiniteSets, TLC

(***************************************************************************)
(* Bounds of the model.                                                    *)
(***************************************************************************)
\* CircuitBreakerStats.window_size: the source default is 100; the model
\* works on a scaled-down window so that the window wraps.
WindowSize == 2
\* failure_threshold is drawn from 1..MaxFailureThreshold.
MaxFailureThreshold == 2
\* success_threshold is drawn from 1..MaxSuccessThreshold.
MaxSuccessThreshold == 2
\* recovery_timeout is drawn from 0..MaxRecoveryTimeout (clock ticks).
MaxRecoveryTimeout == 1
\* The clock runs from 0 to MaxTime.
MaxTime == 1
\* Number of concurrent callers of one breaker.
NumCallers == 2
\* Outcomes recorded on a CircuitBreakerStats taken on its own.
MaxRecorded == 6
\* Orders: the initial estoque of each product, the largest quantidade of a
\* line, the most lines of an order, the most order ids handed out.
MaxEstoque == 2
MaxQuantidade == 3
MaxLinhas == 2
MaxPedidos == 2

(***************************************************************************)
(* Circuit breaker: constants of the source.                               *)
(***************************************************************************)
CLOSED == "closed"
OPEN == "open"
HALF_OPEN == "half_open"
CircuitState == {CLOSED, OPEN, HALF_OPEN}

\* Python's None for last_failure_time (times are naturals).
None == -1
\* No caller holds the lock.
NoCaller == 0
Callers == 1..NumCallers

\* Exception classes the wrapped operation can raise, and the class raised
\* by asyncio.wait_for when the timeout fires.
HTTPError == "HTTPError"
KeyError == "KeyError"
TimeoutError == "asyncio.TimeoutError"
OpExceptions == {HTTPError, KeyError}

\* Values of config.expected_exception: the default (Exception) and the
\* httpx tuple used by ResilientBookEnrichmentService.
ExpectedException == {"Exception", HTTPError}

\* What a call hands to its caller.
CircuitBreakerOpenException == "CircuitBreakerOpenException"
CircuitBreakerTimeoutException == "CircuitBreakerTimeoutException"
FallbackError == "FallbackError"
Outcomes == {"none", "result", "fallback_result", CircuitBreakerOpenException,
             CircuitBreakerTimeoutException, FallbackError, TimeoutError}
              \cup OpExceptions

\* The record kept of the call that completed last.
NoCall == [invoked |-> FALSE, op_event |-> "none", outcome |-> "none"]

VARIABLES
    config,                  \* CircuitBreakerConfig (+ whether a fallback is set)
    state,                   \* CircuitBreaker.state
    stats,                   \* CircuitBreaker.stats (CircuitBreakerStats)
    last_state_change,       \* CircuitBreaker.last_state_change
    half_open_success_count, \* CircuitBreaker.half_open_success_count
    lock_holder,             \* CircuitBreaker._lock: the caller inside `async with`
    lock_waiters,            \* CircuitBreaker._lock: FIFO of callers waiting to acquire
    pc,                      \* position of each caller inside call()
    last,                    \* the call completed last: whether func was invoked,
                             \* how func or the fallback ended (op_event), what
                             \* the caller was handed (outcome)
    now                      \* time.time()

cbVars == <<config, state, stats, last_state_change, half_open_success_count,
            lock_holder, lock_waiters, pc, last, now>>

breakerVars == <<state, stats, last_state_change, half_open_success_count>>

VARIABLES
    cache_config,       \* max_size, default_ttl, strategy, enable_compression
    cache,              \* SmartCacheManager.cache: dict in insertion order,
                        \* a sequence of [key, entry] records
    access_order,       \* SmartCacheManager.access_order
    frequency_counter,  \* SmartCacheManager.frequency_counter: dict in
                        \* insertion order, a sequence of [key, count] records
    metrics,            \* hits, misses, evictions, compressions
    cache_result,       \* the last operation and what it returned
    cache_now           \* time.time()

cacheVars == <<cache_config, cache, access_order, frequency_counter, metrics,
               cache_result, cache_now>>

VARIABLES
    en_service,   \* the class whose enrich_book_data runs
    en_isbn,      \* whether the isbn argument is given
    en_pc,        \* position inside enrich_book_data
    en_status,    \* per source: its coroutine / task
    en_outcome,   \* per source: what its call returned or raised
    en_return     \* what enrich_book_data handed to its caller

enrichVars == <<en_service, en_isbn, en_pc, en_status, en_outcome, en_return>>

VARIABLES
    rs_store,     \* the Redis keyspace behind CacheService.redis_client
    rs_result     \* the last CacheService operation: how the client call
                  \* ended (backend) and what the caller was handed (ret)

rsVars == <<rs_store, rs_result>>

VARIABLES
    ec_estoque,     \* RepositorioProdutosMemoria: estoque of each product
    ec_pedidos,     \* RepositorioPedidosMemoria._pedidos, in order of salvar
    ec_proximo_id,  \* RepositorioPedidosMemoria._proximo_id
    ec_resultado    \* what the last processar_pedido_completo handed back

ecVars == <<ec_estoque, ec_pedidos, ec_proximo_id, ec_resultado>>

VARIABLES
    wn_stats,     \* a CircuitBreakerStats taken on its own
    wn_recorded   \* every outcome recorded on it so far, in arrival order

winVars == <<wn_stats, wn_recorded>>

\* What the operations of one subsystem leave alone: the other subsystems.
otherThanCB == <<cacheVars, enrichVars, rsVars, ecVars, winVars>>
otherThanCache == <<cbVars, enrichVars, rsVars, ecVars, winVars>>
otherThanEnrich == <<cbVars, cacheVars, rsVars, ecVars, winVars>>
otherThanRedis == <<cbVars, cacheVars, enrichVars, ecVars, winVars>>
otherThanEcommerce == <<cbVars, cacheVars, enrichVars, rsVars, winVars>>
otherThanWindow == <<cbVars, cacheVars, enrichVars, rsVars, ecVars>>

(***************************************************************************)
(* CircuitBreakerStats                                                     *)
(***************************************************************************)
\* CircuitBreakerStats.__init__
StatsInit ==
    [requests |-> <<>>, failure_count |-> 0, success_count |-> 0,
     last_failure_time |-> None]

\* Variant of AddRequest: the counts are not lowered when the oldest
\* outcome is dropped.
AddRequest_KeepCounts(st, success) ==
    IF Len(st.requests) >= WindowSize
    THEN [st EXCEPT !.requests = Append(Tail(@), success)]
    ELSE [st EXCEPT !.requests = Append(@, success)]

\* Variant of AddRequest: a full window drops its newest outcome.
AddRequest_DropNewest(st, success) ==
    IF Len(st.requests) >= WindowSize
    THEN LET removed == st.requests[Len(st.requests)]
             rest == SubSeq(st.requests, 1, Len(st.requests) - 1)
         IN  [st EXCEPT !.requests = Append(rest, success),
                        !.success_count = IF removed THEN @ - 1 ELSE @,
                        !.failure_count = IF removed THEN @ ELSE @ - 1]
    ELSE [st EXCEPT !.requests = Append(@, success)]

\* CircuitBreakerStats._add_request
AddRequest(st, success) ==
    IF Len(st.requests) >= WindowSize
    THEN LET removed == Head(st.requests)
             rest == Tail(st.requests)
         IN  [st EXCEPT !.requests = Append(rest, success),
                        !.success_count = IF removed THEN @ - 1 ELSE @,
                        !.failure_count = IF removed THEN @ ELSE @ - 1]
    ELSE [st EXCEPT !.requests = Append(@, success)]

\* CircuitBreakerStats.record_success
RecordSuccess(st) ==
    [AddRequest(st, TRUE) EXCEPT !.success_count = @ + 1]

\* CircuitBreakerStats.record_failure
RecordFailure(st, t) ==
    [AddRequest(st, FALSE) EXCEPT !.failure_count = @ + 1,
                                  !.last_failure_time = t]

\* CircuitBreakerStats.total_requests
TotalRequests(st) == Len(st.requests)

\* CircuitBreakerStats.failure_rate as the fraction <<numerator, denominator>>:
\* 0.0 for an empty window, failure_count / total otherwise.
FailureRate(st) ==
    IF TotalRequests(st) = 0
    THEN <<0, 1>>
    ELSE <<st.failure_count, TotalRequests(st)>>

\* A CircuitBreakerStats after construction, nothing recorded yet.
InitWindow ==
    /\ wn_stats = StatsInit
    /\ wn_recorded = <<>>

\* stats.record_success()
WindowRecordSuccess ==
    /\ Len(wn_recorded) < MaxRecorded
    /\ wn_stats' = RecordSuccess(wn_stats)
    /\ wn_recorded' = Append(wn_recorded, TRUE)
    /\ UNCHANGED otherThanWindow

\* stats.record_failure() at time t
WindowRecordFailure(t) ==
    /\ Len(wn_recorded) < MaxRecorded
    /\ wn_stats' = RecordFailure(wn_stats, t)
    /\ wn_recorded' = Append(wn_recorded, FALSE)
    /\ UNCHANGED otherThanWindow

NextWindow ==
    \/ WindowRecordSuccess
    \/ \E t \in 0..MaxTime : WindowRecordFailure(t)

(***************************************************************************)
(* CircuitBreaker: the breaker object as a record, and its methods         *)
(***************************************************************************)
Self ==
    [state |-> state, stats |-> stats, last_state_change |-> last_state_change,
     half_open_success_count |-> half_open_success_count]

Store(s) ==
    /\ state' = s.state
    /\ stats' = s.stats
    /\ last_state_change' = s.last_state_change
    /\ half_open_success_count' = s.half_open_success_count

\* Variant of RecoveryElapsed: strict comparison with recovery_timeout.
RecoveryElapsed_Strict(t, changed, recovery_timeout) ==
    t - changed > recovery_timeout

\* _check_state_transition, OPEN branch: now - last_state_change >= recovery_timeout
RecoveryElapsed(t, changed, recovery_timeout) ==
    t - changed >= recovery_timeout

\* Variant of ThresholdReached: opens one failure late.
ThresholdReached_Late(st, failure_threshold) ==
    /\ st.failure_count > failure_threshold
    /\ Len(st.requests) >= failure_threshold

\* Variant of ThresholdReached: a success in the window keeps the breaker
\* closed.
ThresholdReached_NoSuccess(st, failure_threshold) ==
    /\ st.failure_count >= failure_threshold
    /\ st.success_count = 0

\* _check_state_transition, CLOSED branch: the guard on the window's counts
ThresholdReached(st, failure_threshold) ==
    /\ st.failure_count >= failure_threshold
    /\ TotalRequests(st) >= failure_threshold

\* Variant of CheckStateTransition: a check that leaves the breaker OPEN
\* counts the rejected call as a failure.
CheckStateTransition_CountsRejection(s, cfg, t) ==
    IF s.state = OPEN
    THEN IF RecoveryElapsed(t, s.last_state_change, cfg.recovery_timeout)
         THEN [s EXCEPT !.state = HALF_OPEN,
                        !.half_open_success_count = 0,
                        !.last_state_change = t]
         ELSE [s EXCEPT !.stats = RecordFailure(s.stats, t)]
    ELSE IF s.state = CLOSED
    THEN IF ThresholdReached(s.stats, cfg.failure_threshold)
         THEN [s EXCEPT !.state = OPEN, !.last_state_change = t]
         ELSE s
    ELSE s

\* CircuitBreaker._check_state_transition
CheckStateTransition(s, cfg, t) ==
    IF s.state = OPEN
    THEN IF RecoveryElapsed(t, s.last_state_change, cfg.recovery_timeout)
         THEN [s EXCEPT !.state = HALF_OPEN,
                        !.half_open_success_count = 0,
                        !.last_state_change = t]
         ELSE s
    ELSE IF s.state = CLOSED
    THEN IF ThresholdReached(s.stats, cfg.failure_threshold)
         THEN [s EXCEPT !.state = OPEN, !.last_state_change = t]
         ELSE s
    ELSE s

\* Variant of RecoveryComplete: strict comparison with success_threshold.
RecoveryComplete_Strict(count, success_threshold) ==
    count > success_threshold

\* _on_success: hosc >= success_threshold
RecoveryComplete(count, success_threshold) ==
    count >= success_threshold

\* Variant of OnSuccess: the recovery does not stamp last_state_change.
OnSuccess_NoStamp(s, cfg, t) ==
    LET r == [s EXCEPT !.stats = RecordSuccess(s.stats)] IN
    IF r.state = HALF_OPEN
    THEN LET n == r.half_open_success_count + 1 IN
         IF RecoveryComplete(n, cfg.success_threshold)
         THEN [r EXCEPT !.state = CLOSED,
                        !.half_open_success_count = 0]
         ELSE [r EXCEPT !.half_open_success_count = n]
    ELSE r

\* Variant of OnSuccess: the recovery keeps the half-open count.
OnSuccess_KeepCount(s, cfg, t) ==
    LET r == [s EXCEPT !.stats = RecordSuccess(s.stats)] IN
    IF r.state = HALF_OPEN
    THEN LET n == r.half_open_success_count + 1 IN
         IF RecoveryComplete(n, cfg.success_threshold)
         THEN [r EXCEPT !.state = CLOSED,
                        !.last_state_change = t,
                        !.half_open_success_count = n]
         ELSE [r EXCEPT !.half_open_success_count = n]
    ELSE r

\* CircuitBreaker._on_success
OnSuccess(s, cfg, t) ==
    LET r == [s EXCEPT !.stats = RecordSuccess(s.stats)] IN
    IF r.state = HALF_OPEN
    THEN LET n == r.half_open_success_count + 1 IN
         IF RecoveryComplete(n, cfg.success_threshold)
         THEN [r EXCEPT !.state = CLOSED,
                        !.last_state_change = t,
                        !.half_open_success_count = 0]
         ELSE [r EXCEPT !.half_open_success_count = n]
    ELSE r

\* Variant of OnFailure: a recorded failure opens the breaker at once,
\* whatever its state.
OnFailure_Eager(s, t) ==
    [s EXCEPT !.stats = RecordFailure(s.stats, t),
              !.state = OPEN,
              !.last_state_change = t,
              !.half_open_success_count = 0]

\* CircuitBreaker._on_failure
OnFailure(s, t) ==
    LET r == [s EXCEPT !.stats = RecordFailure(s.stats, t)] IN
    IF r.state = HALF_OPEN
    THEN [r EXCEPT !.state = OPEN,
                   !.last_state_change = t,
                   !.half_open_success_count = 0]
    ELSE r

\* isinstance(e, config.expected_exception): every class here derives from
\* Exception; the httpx tuple matches only the HTTP errors.
IsInstance(e, expected) ==
    \/ expected = "Exception"
    \/ e = expected

\* Variant of Rejects: compares with the wrong state.
Rejects_WrongState(s) == s = HALF_OPEN

\* call(): `if self.state == CircuitState.OPEN` after the transition check
Rejects(s) == s = OPEN

\* Variant of ExceptClause: the expected-exception clause re-raises without
\* recording the failure.
ExceptClause_NoRecord(e, expected) ==
    IF IsInstance(e, expected)
    THEN <<FALSE, e>>
    ELSE IF e = TimeoutError
    THEN <<TRUE, CircuitBreakerTimeoutException>>
    ELSE <<FALSE, e>>

\* Variant of ExceptClause: an exception no clause matches is recorded as a
\* failure too.
ExceptClause_CatchAll(e, expected) ==
    IF IsInstance(e, expected)
    THEN <<TRUE, e>>
    ELSE IF e = TimeoutError
    THEN <<TRUE, CircuitBreakerTimeoutException>>
    ELSE <<TRUE, e>>

\* call(): the except clauses of the try block, in source order.  The
\* result is <<recorded as failure, what is raised>>.
ExceptClause(e, expected) ==
    IF IsInstance(e, expected)
    THEN <<TRUE, e>>
    ELSE IF e = TimeoutError
    THEN <<TRUE, CircuitBreakerTimeoutException>>
    ELSE <<FALSE, e>>

\* Variant of FallbackFailed: a failing fallback is counted as a circuit failure.
FallbackFailed_Records(s, t) == <<OnFailure(s, t), FallbackError>>

\* _execute_fallback: `except Exception: logging.error(...); raise`.  The
\* result is <<the breaker afterwards, what is raised>>.
FallbackFailed(s, t) == <<s, FallbackError>>

(***************************************************************************)
(* asyncio.Lock around the body of call()                                  *)
(***************************************************************************)
\* Variant of CanAcquire: the lock does not exclude anybody.
CanAcquire_Always(holder, waiters) == TRUE

\* Lock.acquire takes the lock at once when it is free and nobody waits.
CanAcquire(holder, waiters) ==
    holder = NoCaller /\ waiters = <<>>

\* Variant of Release: the caller leaves `async with` without releasing.
Release_KeepsLock(c) ==
    /\ lock_holder' = lock_holder
    /\ lock_waiters' = lock_waiters
    /\ pc' = [pc EXCEPT ![c] = "idle"]

\* Lock.release when c leaves `async with`: the first waiter is woken and
\* takes the lock.
Release(c) ==
    IF lock_waiters = <<>>
    THEN /\ lock_holder' = NoCaller
         /\ lock_waiters' = lock_waiters
         /\ pc' = [pc EXCEPT ![c] = "idle"]
    ELSE /\ lock_holder' = Head(lock_waiters)
         /\ lock_waiters' = Tail(lock_waiters)
         /\ pc' = [pc EXCEPT ![c] = "idle", ![Head(lock_waiters)] = "locked"]

(***************************************************************************)
(* Initial state of the breaker: CircuitBreaker.__init__                   *)
(***************************************************************************)
Configs ==
    [failure_threshold : 1..MaxFailureThreshold,
     recovery_timeout : 0..MaxRecoveryTimeout,
     success_threshold : 1..MaxSuccessThreshold,
     expected_exception : ExpectedException,
     fallback : BOOLEAN]

InitCB ==
    /\ config \in Configs
    /\ state = CLOSED
    /\ stats = StatsInit
    /\ now = 0
    /\ last_state_change = 0
    /\ half_open_success_count = 0
    /\ lock_holder = NoCaller
    /\ lock_waiters = <<>>
    /\ pc = [c \in Callers |-> "idle"]
    /\ last = NoCall

(***************************************************************************)
(* call(): one action per step between suspension points                   *)
(***************************************************************************)
\* The call of c is over: what it hands to its caller.
Completed(c, inv, event, result) ==
    last' = [invoked |-> inv, op_event |-> event, outcome |-> result]

\* `async with self._lock`: enter, or queue behind the holder.
Acquire(c) ==
    /\ pc[c] = "idle"
    /\ IF CanAcquire(lock_holder, lock_waiters)
       THEN /\ lock_holder' = c
            /\ pc' = [pc EXCEPT ![c] = "locked"]
            /\ UNCHANGED lock_waiters
       ELSE /\ lock_waiters' = Append(lock_waiters, c)
            /\ pc' = [pc EXCEPT ![c] = "waiting"]
            /\ UNCHANGED lock_holder
    /\ UNCHANGED <<config, breakerVars, last, now>>
    /\ UNCHANGED otherThanCB

\* `await self._check_state_transition()`
Check(c) ==
    /\ pc[c] = "locked"
    /\ Store(CheckStateTransition(Self, config, now))
    /\ pc' = [pc EXCEPT ![c] = "checked"]
    /\ UNCHANGED <<config, lock_holder, lock_waiters, last, now>>
    /\ UNCHANGED otherThanCB

\* OPEN without fallback: raise CircuitBreakerOpenException
Reject(c) ==
    /\ pc[c] = "checked"
    /\ Rejects(state)
    /\ ~config.fallback
    /\ Completed(c, FALSE, "none", CircuitBreakerOpenException)
    /\ Release(c)
    /\ UNCHANGED <<config, breakerVars, now>>
    /\ UNCHANGED otherThanCB

\* OPEN with fallback: `return await self._execute_fallback(...)`
StartFallback(c) ==
    /\ pc[c] = "checked"
    /\ Rejects(state)
    /\ config.fallback
    /\ pc' = [pc EXCEPT ![c] = "fallback"]
    /\ UNCHANGED <<config, breakerVars, lock_holder, lock_waiters, last, now>>
    /\ UNCHANGED otherThanCB

\* the fallback returns
FallbackReturns(c) ==
    /\ pc[c] = "fallback"
    /\ Completed(c, FALSE, "fallback_returned", "fallback_result")
    /\ Release(c)
    /\ UNCHANGED <<config, breakerVars, now>>
    /\ UNCHANGED otherThanCB

\* the fallback raises: logged and re-raised
FallbackRaises(c) ==
    /\ pc[c] = "fallback"
    /\ Store(FallbackFailed(Self, now)[1])
    /\ Completed(c, FALSE, "fallback_raised", FallbackFailed(Self, now)[2])
    /\ Release(c)
    /\ UNCHANGED <<config, now>>
    /\ UNCHANGED otherThanCB

\* not OPEN: `asyncio.wait_for(func(*args, **kwargs), timeout)` starts func
Invoke(c) ==
    /\ pc[c] = "checked"
    /\ ~Rejects(state)
    /\ pc' = [pc EXCEPT ![c] = "running"]
    /\ UNCHANGED <<config, breakerVars, lock_holder, lock_waiters, last, now>>
    /\ UNCHANGED otherThanCB

\* func returned in time: _on_success, return result
OpReturns(c) ==
    /\ pc[c] = "running"
    /\ Store(OnSuccess(Self, config, now))
    /\ Completed(c, TRUE, "returned", "result")
    /\ Release(c)
    /\ UNCHANGED <<config, now>>
    /\ UNCHANGED otherThanCB

\* the try block is left by exception e: the matching except clause runs
LeaveByException(c, e, event) ==
    LET clause == ExceptClause(e, config.expected_exception) IN
    /\ pc[c] = "running"
    /\ IF clause[1] THEN Store(OnFailure(Self, now)) ELSE UNCHANGED breakerVars
    /\ Completed(c, TRUE, event, clause[2])
    /\ Release(c)
    /\ UNCHANGED <<config, now>>
    /\ UNCHANGED otherThanCB

\* func raised e
OpRaises(c) ==
    \E e \in OpExceptions : LeaveByException(c, e, e)

\* func did not finish within config.timeout: wait_for cancels it and raises
\* asyncio.TimeoutError
OpTimesOut(c) ==
    LeaveByException(c, TimeoutError, "timeout")

\* the clock advances
Tick ==
    /\ now < MaxTime
    /\ now' = now + 1
    /\ UNCHANGED <<config, breakerVars, lock_holder, lock_waiters, pc, last>>
    /\ UNCHANGED otherThanCB

NextCB ==
    \/ \E c \in Callers : Acquire(c)
    \/ \E c \in Callers : Check(c)
    \/ \E c \in Callers : Reject(c)
    \/ \E c \in Callers : StartFallback(c)
    \/ \E c \in Callers : FallbackReturns(c)
    \/ \E c \in Callers : FallbackRaises(c)
    \/ \E c \in Callers : Invoke(c)
    \/ \E c \in Callers : OpReturns(c)
    \/ \E c \in Callers : OpRaises(c)
    \/ \E c \in Callers : OpTimesOut(c)
    \/ Tick

(***************************************************************************)
(* SmartCacheManager (app/core/advanced_caching.py)                        *)
(***************************************************************************)
\* Bounds of the cache model.
\* max_size is drawn from 1..MaxCapacity.
MaxCapacity == 2
\* The cache clock runs from 0 to MaxCacheTime.
MaxCacheTime == 1
\* get is called while hits + misses < MaxGets.
MaxGets == 1
\* set evicts while evictions < MaxEvictions.
MaxEvictions == 1
\* set compresses while compressions < MaxCompressions.
MaxCompressions == 1
\* In the LFU specification get is called while hits + misses < MaxLFUGets.
MaxLFUGets == 2

Keys == {"a", "b", "c"}

\* CacheStrategy
LRU == "lru"
LFU == "lfu"
TTL == "ttl"
WRITE_THROUGH == "write_through"
WRITE_BEHIND == "write_behind"
CacheStrategy == {LRU, LFU, TTL, WRITE_THROUGH, WRITE_BEHIND}

\* Values handed to set: one whose pickle is at most 1024 bytes and one whose
\* pickle is larger.
SmallValue == [type |-> "str", big |-> FALSE, compressed |-> FALSE, data |-> <<>>]
BigValue == [type |-> "str", big |-> TRUE, compressed |-> FALSE, data |-> <<>>]
Values == {SmallValue, BigValue}
\* Values that are themselves dicts with a truthy "_compressed" key (and no
\* gzip payload under "_data"), small and big.
TaggedDict == [type |-> "dict", big |-> FALSE, compressed |-> TRUE, data |-> <<>>]
BigTaggedDict == [type |-> "dict", big |-> TRUE, compressed |-> TRUE, data |-> <<>>]
AllValues == Values \cup {TaggedDict, BigTaggedDict}
\* The exception that leaves _decompress_if_needed when value["_data"] is
\* missing or is not gzip data (KeyError, TypeError, gzip.BadGzipFile).
DecompressError ==
    [type |-> "exception", big |-> FALSE, compressed |-> FALSE, data |-> <<>>]
\* get of a missing or expired key returns None.
NoValue == [type |-> "NoneType", big |-> FALSE, compressed |-> FALSE, data |-> <<>>]

\* ttl arguments of set (None: not passed) and values of default_ttl.
TTLArgs == {None, 0, 1}
DefaultTTLs == {None, 0}

\* The manager as a record.
Manager ==
    [cache |-> cache, access_order |-> access_order,
     frequency_counter |-> frequency_counter, metrics |-> metrics]

StoreManager(m) ==
    /\ cache' = m.cache
    /\ access_order' = m.access_order
    /\ frequency_counter' = m.frequency_counter
    /\ metrics' = m.metrics

\* --- dict and list helpers -------------------------------------------------
\* `key in d` for a dict kept as a sequence of records with a key field
InDict(d, k) == \E i \in 1..Len(d) : d[i].key = k
\* position of k in dict d
DictIndex(d, k) == CHOOSE i \in 1..Len(d) : d[i].key = k
\* Variant of DictDel: the item stays.
DictDel_Keep(d, k) == d

\* `del d[k]`
DictDel(d, k) == SelectSeq(d, LAMBDA r : r.key # k)
\* Variant of DictPut: the item is appended even when k is present.
DictPut_Append(d, r) == Append(d, r)

\* `d[k] = r`: in place when k is present, appended otherwise
DictPut(d, r) ==
    IF InDict(d, r.key)
    THEN [d EXCEPT ![DictIndex(d, r.key)] = r]
    ELSE Append(d, r)
\* seq without its i-th element
Without(seq, i) == SubSeq(seq, 1, i - 1) \o SubSeq(seq, i + 1, Len(seq))

\* `k in lst`
InList(lst, k) == \E i \in 1..Len(lst) : lst[i] = k
\* Variant of ListRemove: the key is left where it was.
ListRemove_Keep(lst, k) == lst

\* `lst.remove(k)`: removes the first occurrence
ListRemove(lst, k) ==
    IF ~InList(lst, k) THEN lst
    ELSE LET i == CHOOSE j \in 1..Len(lst) :
                     lst[j] = k /\ \A h \in 1..(j - 1) : lst[h] # k
         IN  Without(lst, i)
\* the first n elements: `seq[:n]`
Take(seq, n) ==
    IF n <= 0 THEN <<>> ELSE SubSeq(seq, 1, IF n < Len(seq) THEN n ELSE Len(seq))
\* keys of the dict
StoredKeys == {cache[i].key : i \in 1..Len(cache)}

\* sorted(seq, key=...): ranks[i] is the sort key of seq[i]; the sort is
\* stable (among equal keys the earlier element comes first)
RECURSIVE SortedBy(_, _)
SortedBy(seq, ranks) ==
    IF seq = <<>> THEN <<>>
    ELSE LET i == CHOOSE j \in 1..Len(seq) :
                     /\ \A h \in 1..Len(seq) : ranks[j] <= ranks[h]
                     /\ \A h \in 1..(j - 1) : ranks[h] > ranks[j]
         IN  <<seq[i]>> \o SortedBy(Without(seq, i), Without(ranks, i))

\* --- CacheEntry -----------------------------------------------------------
\* Variant of IsExpired: expired as soon as the ttl is reached.
IsExpired_AtTTL(e, t) ==
    IF e.ttl = None THEN FALSE ELSE t - e.created_at >= e.ttl

\* CacheEntry.is_expired
IsExpired(e, t) ==
    IF e.ttl = None THEN FALSE ELSE t - e.created_at > e.ttl

\* --- compression ----------------------------------------------------------
\* len(pickle.dumps(value)) > 1024
NeedsCompression(v) == v.big

\* _compress_if_needed: <<stored value, whether compressions is raised>>
CompressIfNeeded(v, enable_compression) ==
    IF ~enable_compression THEN <<v, FALSE>>
    ELSE IF NeedsCompression(v)
    THEN <<[type |-> "dict", big |-> FALSE, compressed |-> TRUE, data |-> <<v>>],
           TRUE>>
    ELSE <<v, FALSE>>

\* _decompress_if_needed
DecompressIfNeeded(v) ==
    IF v.type = "dict" /\ v.compressed
    THEN IF v.data # <<>> THEN v.data[1] ELSE DecompressError
    ELSE v

\* --- delete ---------------------------------------------------------------
\* Variant of Delete: the recency list and the frequency map are not
\* cleaned up.
Delete_KeepBookkeeping(m, k) ==
    IF ~InDict(m.cache, k) THEN <<m, FALSE>>
    ELSE <<[m EXCEPT !.cache = DictDel(@, k)], TRUE>>

\* SmartCacheManager.delete: <<manager afterwards, return value>>
Delete(m, k) ==
    IF ~InDict(m.cache, k) THEN <<m, FALSE>>
    ELSE <<[m EXCEPT !.cache = DictDel(@, k),
                     !.access_order = ListRemove(@, k),
                     !.frequency_counter = DictDel(@, k)],
           TRUE>>

\* `for key in keys: await self.delete(key); self.evictions += 1`
RECURSIVE DeleteCounted(_, _)
DeleteCounted(m, keys) ==
    IF keys = <<>> THEN m
    ELSE DeleteCounted(
            [Delete(m, Head(keys))[1] EXCEPT !.metrics.evictions = @ + 1],
            Tail(keys))

\* Variant of DeleteAll: the loop stops after the first key.
DeleteAll_First(m, keys) ==
    IF keys = <<>> THEN m ELSE Delete(m, Head(keys))[1]

\* `for key in keys: await self.delete(key)`
RECURSIVE DeleteAll(_, _)
DeleteAll(m, keys) ==
    IF keys = <<>> THEN m ELSE DeleteAll(Delete(m, Head(keys))[1], Tail(keys))

\* --- eviction -------------------------------------------------------------
\* LRU branch: `for _ in range(min(count, len(access_order)))`
RECURSIVE EvictLRU(_, _)
EvictLRU(m, n) ==
    IF n <= 0 \/ m.access_order = <<>> THEN m
    ELSE LET oldest_key == Head(m.access_order)
             popped == [m EXCEPT !.access_order = Tail(@)]
         IN  EvictLRU(
                IF InDict(popped.cache, oldest_key)
                THEN [popped EXCEPT !.cache = DictDel(@, oldest_key),
                                    !.metrics.evictions = @ + 1]
                ELSE popped,
                n - 1)

\* LFU branch: `for key, _ in sorted_by_freq[:count]`
RECURSIVE EvictLFUKeys(_, _)
EvictLFUKeys(m, items) ==
    IF items = <<>> THEN m
    ELSE LET k == Head(items).key IN
         EvictLFUKeys(
            IF InDict(m.cache, k)
            THEN [m EXCEPT !.cache = DictDel(@, k),
                           !.frequency_counter = DictDel(@, k),
                           !.metrics.evictions = @ + 1]
            ELSE m,
            Tail(items))

\* `key=lambda x: x[1]` on frequency_counter.items()
FreqRanks(d) == [i \in 1..Len(d) |-> d[i].count]
\* Variant of CreatedRanks: the newest entry sorts first.
CreatedRanks_Newest(d) == [i \in 1..Len(d) |-> 0 - d[i].entry.created_at]

\* `key=lambda x: x[1].created_at` on cache.items()
CreatedRanks(d) == [i \in 1..Len(d) |-> d[i].entry.created_at]

EvictLFU(m, count) ==
    IF m.frequency_counter = <<>> THEN m
    ELSE EvictLFUKeys(m, Take(SortedBy(m.frequency_counter, FreqRanks(m.frequency_counter)), count))

\* TTL branch: expired entries first, then the oldest by created_at
EvictTTL(m, count, t) ==
    LET expired == SelectSeq(m.cache, LAMBDA r : IsExpired(r.entry, t))
        expired_keys == [i \in 1..Len(expired) |-> expired[i].key]
        m1 == DeleteCounted(m, Take(expired_keys, count))
        remaining == count - Len(expired_keys)
        oldest == SortedBy(m1.cache, CreatedRanks(m1.cache))
        oldest_keys == [i \in 1..Len(oldest) |-> oldest[i].key]
    IN  IF remaining > 0
        THEN DeleteCounted(m1, Take(oldest_keys, remaining))
        ELSE m1

\* SmartCacheManager._evict_entries
EvictEntries(m, strategy, count, t) ==
    IF strategy = LRU THEN EvictLRU(m, IF count < Len(m.access_order)
                                       THEN count ELSE Len(m.access_order))
    ELSE IF strategy = LFU THEN EvictLFU(m, count)
    ELSE IF strategy = TTL THEN EvictTTL(m, count, t)
    ELSE m

\* --- set ------------------------------------------------------------------
\* set(): `len(self.cache) >= self.max_size and key not in self.cache`
MustEvict(m, max_size, k) ==
    Len(m.cache) >= max_size /\ ~InDict(m.cache, k)

\* set(): `ttl or self.default_ttl`
EntryTTL(ttl, default_ttl) ==
    IF ttl = None \/ ttl = 0 THEN default_ttl ELSE ttl

\* SmartCacheManager.set: <<manager afterwards, return value>>
Set(m, cfg, k, v, ttl, force, t) ==
    LET m1 == IF MustEvict(m, cfg.max_size, k)
              THEN EvictEntries(m, cfg.strategy, 1, t)
              ELSE m
        cv == CompressIfNeeded(v, cfg.enable_compression)
        m2 == IF cv[2] THEN [m1 EXCEPT !.metrics.compressions = @ + 1] ELSE m1
        entry == [value |-> cv[1], created_at |-> t, accessed_at |-> t,
                  access_count |-> 1, ttl |-> EntryTTL(ttl, cfg.default_ttl)]
        was_update == InDict(m2.cache, k)
        m3 == [m2 EXCEPT !.cache = DictPut(@, [key |-> k, entry |-> entry])]
        m4 == IF cfg.strategy = LRU
              THEN [m3 EXCEPT !.access_order = Append(ListRemove(@, k), k)]
              ELSE m3
        m5 == IF cfg.strategy = LFU /\ ~was_update
              THEN [m4 EXCEPT !.frequency_counter =
                                  DictPut(@, [key |-> k, count |-> 1])]
              ELSE m4
    IN  <<m5, TRUE>>

\* --- get ------------------------------------------------------------------
\* SmartCacheManager.get: <<manager afterwards, return value>>
Get(m, cfg, k, t) ==
    IF ~InDict(m.cache, k)
    THEN <<[m EXCEPT !.metrics.misses = @ + 1], NoValue>>
    ELSE LET i == DictIndex(m.cache, k)
             entry == m.cache[i].entry
         IN  IF IsExpired(entry, t)
             THEN <<[Delete(m, k)[1] EXCEPT !.metrics.misses = @ + 1], NoValue>>
             ELSE LET m1 == [m EXCEPT !.cache[i].entry.accessed_at = t,
                                      !.cache[i].entry.access_count = @ + 1]
                      m2 == IF cfg.strategy = LRU
                            THEN [m1 EXCEPT !.access_order =
                                                Append(ListRemove(@, k), k)]
                            ELSE m1
                      m3 == IF cfg.strategy = LFU
                            THEN [m2 EXCEPT !.frequency_counter =
                                    DictPut(@, [key |-> k, count |->
                                       IF InDict(m2.frequency_counter, k)
                                       THEN m2.frequency_counter[
                                              DictIndex(m2.frequency_counter, k)].count + 1
                                       ELSE 1])]
                            ELSE m2
                  IN  <<[m3 EXCEPT !.metrics.hits = @ + 1],
                        DecompressIfNeeded(entry.value)>>

\* --- cleanup_expired --------------------------------------------------------
\* SmartCacheManager.cleanup_expired
CleanupExpired(m, t) ==
    LET expired == SelectSeq(m.cache, LAMBDA r : IsExpired(r.entry, t))
        expired_keys == [i \in 1..Len(expired) |-> expired[i].key]
    IN  DeleteAll(m, expired_keys)

\* --- initial state and actions ----------------------------------------------
CacheConfigs ==
    [max_size : 1..MaxCapacity,
     default_ttl : DefaultTTLs,
     strategy : CacheStrategy,
     enable_compression : BOOLEAN]

NoResult == [op |-> "none", value |-> NoValue, ok |-> FALSE]

\* SmartCacheManager.__init__
InitCache ==
    /\ cache_config \in CacheConfigs
    /\ cache = <<>>
    /\ access_order = <<>>
    /\ frequency_counter = <<>>
    /\ metrics = [hits |-> 0, misses |-> 0, evictions |-> 0, compressions |-> 0]
    /\ cache_result = NoResult
    /\ cache_now = 0

\* await cache.set(k, v, ttl, force)
CacheSet(k, v, ttl, force) ==
    LET r == Set(Manager, cache_config, k, v, ttl, force, cache_now) IN
    /\ r[1].metrics.evictions <= MaxEvictions
    /\ r[1].metrics.compressions <= MaxCompressions
    /\ StoreManager(r[1])
    /\ cache_result' = [op |-> "set", value |-> NoValue, ok |-> r[2]]
    /\ UNCHANGED <<cache_config, cache_now>>
    /\ UNCHANGED otherThanCache

\* await cache.get(k), while fewer than n gets have been made
CacheGetWithin(k, n) ==
    LET r == Get(Manager, cache_config, k, cache_now) IN
    /\ metrics.hits + metrics.misses < n
    /\ StoreManager(r[1])
    /\ cache_result' = [op |-> "get", value |-> r[2], ok |-> r[2] # NoValue]
    /\ UNCHANGED <<cache_config, cache_now>>
    /\ UNCHANGED otherThanCache

\* await cache.get(k)
CacheGet(k) ==
    LET r == Get(Manager, cache_config, k, cache_now) IN
    /\ metrics.hits + metrics.misses < MaxGets
    /\ StoreManager(r[1])
    /\ cache_result' = [op |-> "get", value |-> r[2], ok |-> r[2] # NoValue]
    /\ UNCHANGED <<cache_config, cache_now>>
    /\ UNCHANGED otherThanCache

\* await cache.delete(k)
CacheDelete(k) ==
    LET r == Delete(Manager, k) IN
    /\ StoreManager(r[1])
    /\ cache_result' = [op |-> "delete", value |-> NoValue, ok |-> r[2]]
    /\ UNCHANGED <<cache_config, cache_now>>
    /\ UNCHANGED otherThanCache

\* await cache.cleanup_expired()
CacheCleanup ==
    /\ StoreManager(CleanupExpired(Manager, cache_now))
    /\ cache_result' = [op |-> "cleanup_expired", value |-> NoValue, ok |-> TRUE]
    /\ UNCHANGED <<cache_config, cache_now>>
    /\ UNCHANGED otherThanCache

\* the clock advances
CacheTick ==
    /\ cache_now < MaxCacheTime
    /\ cache_now' = cache_now + 1
    /\ UNCHANGED <<cache_config, cache, access_order, frequency_counter, metrics,
                   cache_result>>
    /\ UNCHANGED otherThanCache

\* The operations of the cache, with set's arguments drawn from the given
\* sets of keys, values and ttl arguments.
CacheNext(K, V, T) ==
    \/ \E k \in K, v \in V, ttl \in T, force \in BOOLEAN :
          CacheSet(k, v, ttl, force)
    \/ \E k \in K : CacheGet(k)
    \/ \E k \in K : CacheDelete(k)
    \/ CacheCleanup
    \/ CacheTick

(***************************************************************************)
(* Enrichment orchestrators: ResilientBookEnrichmentService                *)
(* (app/core/circuit_breaker.py) and BookEnrichmentService                 *)
(* (app/services/external_apis.py)                                         *)
(***************************************************************************)
RESILIENT == "ResilientBookEnrichmentService"
BASIC == "BookEnrichmentService"
Services == {RESILIENT, BASIC}

\* The upstream sources, in the order the tasks are listed.
GoogleBooks == 1
OpenLibrary == 2
Goodreads == 3
Sources == {GoogleBooks, OpenLibrary, Goodreads}

\* Keys of the result dicts: "title" and "source" stand for the keys both
\* breaker-wrapped fetches return, "summary" for the keys both plain fetches
\* return, "rating" for the keys of the Goodreads simulation.
Fields == {"title", "source", "summary", "rating"}
\* The key is not in the dict.
NoField == -1
\* A value Python takes for false: None, "", [].
Falsy == 0
\* Any other value; the value source i supplies is i itself.
Truthy(v) == v > 0
\* {}
EmptyDict == [f \in Fields |-> NoField]

\* The tasks list built by enrich_book_data.
Tasks(service, isbn) ==
    IF service = RESILIENT
    THEN IF isbn THEN <<GoogleBooks, OpenLibrary>> ELSE <<>>
    ELSE IF isbn THEN <<GoogleBooks, OpenLibrary, Goodreads>> ELSE <<Goodreads>>

\* The dicts the call of source i can return.  Breaker-wrapped fetches and
\* their fallbacks: {} or a dict with "source" set and "title" missing, None
\* or set.  Plain fetches: {} (also on every error) or a dict whose "summary"
\* is None or set.  The Goodreads simulation: always a rating.
SourceDicts(service, i) ==
    IF service = RESILIENT
    THEN {EmptyDict} \cup
         {[EmptyDict EXCEPT !["title"] = t, !["source"] = i] :
             t \in {NoField, Falsy, i}}
    ELSE IF i = Goodreads
    THEN {[EmptyDict EXCEPT !["rating"] = i]}
    ELSE {EmptyDict} \cup {[EmptyDict EXCEPT !["summary"] = v] : v \in {Falsy, i}}

\* The exceptions CircuitBreaker.call can raise: a classified failure, an
\* unclassified exception of the fetch, a timeout, a rejection by an OPEN
\* breaker that has no fallback.
CallExceptions ==
    {HTTPError, KeyError, CircuitBreakerTimeoutException,
     CircuitBreakerOpenException}

\* What the call of one source ended with.
Returned(dict) == [exc |-> "none", dict |-> dict]
Raised(exc) == [exc |-> exc, dict |-> EmptyDict]
NoOutcome == [exc |-> "pending", dict |-> EmptyDict]
SourceOutcomes(service, i) ==
    {Returned(dict) : dict \in SourceDicts(service, i)} \cup
    (IF service = RESILIENT THEN {Raised(e) : e \in CallExceptions} ELSE {})

AllOutcomes ==
    UNION {SourceOutcomes(service, i) : service \in Services, i \in Sources}

\* What enrich_book_data handed back.
NoReturn == [kind |-> "none", value |-> EmptyDict]

\* Variant of Swallowed: only the rejection of an OPEN breaker is caught.
Swallowed_OnlyOpen(exc) == exc = CircuitBreakerOpenException

\* `except CircuitBreakerOpenException` / `except Exception` around `await task`
Swallowed(exc) == exc = CircuitBreakerOpenException \/ exc \in CallExceptions

\* consolidated.update(result)
Update(acc, result) ==
    [f \in Fields |-> IF result[f] # NoField THEN result[f] ELSE acc[f]]

\* `for result in results: consolidated.update(result)`
RECURSIVE MergeUpdate(_, _)
MergeUpdate(acc, results) ==
    IF results = <<>> THEN acc
    ELSE MergeUpdate(Update(acc, Head(results)), Tail(results))

\* `if value and (key not in enriched_data or not enriched_data[key])`
MergeInto(acc, result) ==
    [f \in Fields |->
        IF /\ result[f] # NoField
           /\ Truthy(result[f])
           /\ (acc[f] = NoField \/ ~Truthy(acc[f]))
        THEN result[f] ELSE acc[f]]

\* `for result in results: if isinstance(result, dict): ...`
RECURSIVE MergeFirst(_, _)
MergeFirst(acc, results) ==
    IF results = <<>> THEN acc
    ELSE MergeFirst(MergeInto(acc, Head(results)), Tail(results))

\* The results list of the breaker-wrapped loop: the non-empty dicts that
\* were returned, in task order (`if result: results.append(result)`).
LoopResults(tasks, outcome) ==
    LET kept == SelectSeq(tasks, LAMBDA i : outcome[i].exc = "none"
                                            /\ outcome[i].dict # EmptyDict)
    IN  [n \in 1..Len(kept) |-> outcome[kept[n]].dict]

\* The results of gather(*tasks, return_exceptions=True) that are dicts, in
\* task order.
GatherResults(tasks, outcome) ==
    LET kept == SelectSeq(tasks, LAMBDA i : outcome[i].exc = "none")
    IN  [n \in 1..Len(kept) |-> outcome[kept[n]].dict]

\* The mapping enrich_book_data returns once every task is over.
Consolidated(service, tasks, outcome) ==
    IF service = RESILIENT
    THEN MergeUpdate(EmptyDict, LoopResults(tasks, outcome))
    ELSE MergeFirst(EmptyDict, GatherResults(tasks, outcome))

\* The sources of the running enrichment.
TaskSet == {i \in Sources : en_status[i] # "absent"}

\* No enrichment has been requested.
InitEnrich ==
    /\ en_service \in Services
    /\ en_isbn = FALSE
    /\ en_pc = "idle"
    /\ en_status = [i \in Sources |-> "absent"]
    /\ en_outcome = [i \in Sources |-> NoOutcome]
    /\ en_return = NoReturn

\* enrich_book_data(title, isbn): the tasks list is built; no coroutine has
\* started yet.
EnrichCall(isbn) ==
    LET tasks == Tasks(en_service, isbn) IN
    /\ en_pc \in {"idle", "returned"}
    /\ en_isbn' = isbn
    /\ en_status' = [i \in Sources |->
                        IF \E n \in 1..Len(tasks) : tasks[n] = i
                        THEN "created" ELSE "absent"]
    /\ en_outcome' = [i \in Sources |-> NoOutcome]
    /\ en_return' = NoReturn
    /\ en_pc' = "waiting"
    /\ UNCHANGED en_service
    /\ UNCHANGED otherThanEnrich

\* ResilientBookEnrichmentService: `await task` starts the coroutine of the
\* next task of the loop; the tasks before it are over.
AwaitTask(i) ==
    /\ en_service = RESILIENT
    /\ en_pc = "waiting"
    /\ en_status[i] = "created"
    /\ \A j \in TaskSet : j < i => en_status[j] = "done"
    /\ en_status' = [en_status EXCEPT ![i] = "running"]
    /\ UNCHANGED <<en_service, en_isbn, en_pc, en_outcome, en_return>>
    /\ UNCHANGED otherThanEnrich

\* BookEnrichmentService: wait_for(gather(*tasks)) schedules every task; the
\* fetches suspend on their request, the Goodreads simulation has nothing to
\* wait for and is over at once.
Gather ==
    /\ en_service = BASIC
    /\ en_pc = "waiting"
    /\ \A i \in TaskSet : en_status[i] = "created"
    /\ en_status' = [i \in Sources |->
                        IF i \notin TaskSet THEN "absent"
                        ELSE IF i = Goodreads THEN "done" ELSE "running"]
    /\ en_outcome' = [en_outcome EXCEPT ![Goodreads] =
                         Returned([EmptyDict EXCEPT !["rating"] = Goodreads])]
    /\ UNCHANGED <<en_service, en_isbn, en_pc, en_return>>
    /\ UNCHANGED otherThanEnrich

\* The call of source i is over with outcome o.  An exception the loop does
\* not catch leaves enrich_book_data.
SourceCompletes(i, o) ==
    /\ en_pc = "waiting"
    /\ en_status[i] = "running"
    /\ o \in SourceOutcomes(en_service, i)
    /\ en_status' = [en_status EXCEPT ![i] = "done"]
    /\ en_outcome' = [en_outcome EXCEPT ![i] = o]
    /\ IF o.exc # "none" /\ ~Swallowed(o.exc)
       THEN /\ en_pc' = "returned"
            /\ en_return' = [kind |-> "raised", value |-> EmptyDict]
       ELSE UNCHANGED <<en_pc, en_return>>
    /\ UNCHANGED <<en_service, en_isbn>>
    /\ UNCHANGED otherThanEnrich

\* BookEnrichmentService: the 30 s of wait_for run out while a fetch is
\* pending; gather is cancelled and {} is returned.
GlobalTimeout ==
    /\ en_service = BASIC
    /\ en_pc = "waiting"
    /\ \E i \in TaskSet : en_status[i] = "running"
    /\ en_status' = [i \in Sources |->
                        IF en_status[i] = "running" THEN "cancelled"
                        ELSE en_status[i]]
    /\ en_pc' = "returned"
    /\ en_return' = [kind |-> "timeout", value |-> EmptyDict]
    /\ UNCHANGED <<en_service, en_isbn, en_outcome>>
    /\ UNCHANGED otherThanEnrich

\* Every task is over: the results are consolidated and returned.
ReturnMerged ==
    /\ en_pc = "waiting"
    /\ \A i \in TaskSet : en_status[i] = "done"
    /\ en_pc' = "returned"
    /\ en_return' = [kind |-> "merged",
                     value |-> Consolidated(en_service,
                                            Tasks(en_service, en_isbn),
                                            en_outcome)]
    /\ UNCHANGED <<en_service, en_isbn, en_status, en_outcome>>
    /\ UNCHANGED otherThanEnrich

NextEnrich ==
    \/ \E isbn \in BOOLEAN : EnrichCall(isbn)
    \/ \E i \in Sources : AwaitTask(i)
    \/ Gather
    \/ \E i \in Sources, o \in AllOutcomes : SourceCompletes(i, o)
    \/ GlobalTimeout
    \/ ReturnMerged

(***************************************************************************)
(* CacheService (app/services/cache.py): get / set / delete over Redis     *)
(***************************************************************************)
RKeys == {"book:1", "book:2"}

\* Values a caller stores: a str that is not JSON text, an int, a dict.
RsValues == {"str", "int", "dict"}

\* A call on redis_client returns ("ok") or raises one of the redis
\* exceptions (all of them subclasses of Exception).
RedisConnectionError == "redis.ConnectionError"
BackendErrors ==
    {RedisConnectionError, "redis.TimeoutError", "redis.ResponseError"}

\* CacheService.default_ttl.
DefaultTTL == 300

\* A key Redis does not hold, and the bytes it holds for one that it does:
\* the format they were written in, the value written, the ttl of setex.
Missing == [fmt |-> "none", of |-> "none", ttl |-> 0]

\* set: str / int / float become their text, anything else is pickled.
Dumps(value) ==
    IF value \in {"str", "int"}
    THEN [fmt |-> "text", of |-> value]
    ELSE [fmt |-> "pickle", of |-> value]

\* set: ttl = expire or self.default_ttl.
ExpireOrDefault(expire) ==
    IF expire = None \/ expire = 0 THEN DefaultTTL ELSE expire

\* get: pickle.loads, and json.loads of the decoded text when pickle rejects
\* the bytes; json.loads raises on text that is not JSON.
Loads(bytes) ==
    IF bytes.fmt = "pickle" THEN [raised |-> "none", value |-> bytes.of]
    ELSE IF bytes.of = "int" THEN [raised |-> "none", value |-> "int"]
    ELSE [raised |-> "json.JSONDecodeError", value |-> "none"]

\* `except clause:` catches exc (every modelled class derives from Exception).
Catches_ExactClass(clause, exc) == clause = exc

Catches(clause, exc) == clause = "Exception" \/ clause = exc

\* The except clauses of get: ConnectionError, then Exception; both return
\* None. An exception no clause catches reaches the caller.
GetHandler(exc) ==
    IF Catches(RedisConnectionError, exc) THEN "None"
    ELSE IF Catches("Exception", exc) THEN "None"
    ELSE exc

\* The except clauses of set: ConnectionError, then Exception; both return
\* False.
SetHandler(exc) ==
    IF Catches(RedisConnectionError, exc) THEN "False"
    ELSE IF Catches("Exception", exc) THEN "False"
    ELSE exc

\* The except clause of delete: Exception, returns False.
DeleteHandler(exc) ==
    IF Catches("Exception", exc) THEN "False" ELSE exc

NoRsResult == [op |-> "none", backend |-> "none", ret |-> "none"]

InitRedis ==
    /\ rs_store = [k \in RKeys |-> Missing]
    /\ rs_result = NoRsResult

\* await cache_service.get(key), the client call ending as `backend`.
RsGet(key, backend) ==
    /\ rs_result' =
         [op |-> "get", backend |-> backend,
          ret |-> IF backend # "ok" THEN GetHandler(backend)
                  ELSE IF rs_store[key] = Missing THEN "None"
                  ELSE LET loaded == Loads(rs_store[key])
                       IN  IF loaded.raised = "none" THEN loaded.value
                           ELSE GetHandler(loaded.raised)]
    /\ UNCHANGED rs_store
    /\ UNCHANGED otherThanRedis

\* await cache_service.set(key, value, expire), setex ending as `backend`.
RsSet(key, value, expire, backend) ==
    /\ IF backend = "ok"
       THEN /\ rs_store' =
                 [rs_store EXCEPT ![key] =
                     [fmt |-> Dumps(value).fmt, of |-> Dumps(value).of,
                      ttl |-> ExpireOrDefault(expire)]]
            /\ rs_result' = [op |-> "set", backend |-> backend, ret |-> "True"]
       ELSE /\ rs_store' = rs_store
            /\ rs_result' = [op |-> "set", backend |-> backend,
                             ret |-> SetHandler(backend)]
    /\ UNCHANGED otherThanRedis

\* await cache_service.delete(key), the client call ending as `backend`.
RsDelete(key, backend) ==
    /\ IF backend = "ok"
       THEN /\ rs_store' = [rs_store EXCEPT ![key] = Missing]
            /\ rs_result' =
                 [op |-> "delete", backend |-> backend,
                  ret |-> IF rs_store[key] # Missing THEN "True" ELSE "False"]
       ELSE /\ rs_store' = rs_store
            /\ rs_result' = [op |-> "delete", backend |-> backend,
                             ret |-> DeleteHandler(backend)]
    /\ UNCHANGED otherThanRedis

\* Redis drops a key whose ttl has run out.
RsExpire(key) ==
    /\ rs_store[key] # Missing
    /\ rs_store' = [rs_store EXCEPT ![key] = Missing]
    /\ UNCHANGED rs_result
    /\ UNCHANGED otherThanRedis

\* The operations on every key; set with no expire, expire=0 and expire=60.
NextRedis ==
    \/ \E k \in RKeys, b \in BackendErrors \cup {"ok"} : RsGet(k, b)
    \/ \E k \in RKeys, v \in RsValues, e \in {None, 0, 60},
          b \in BackendErrors \cup {"ok"} : RsSet(k, v, e, b)
    \/ \E k \in RKeys, b \in BackendErrors \cup {"ok"} : RsDelete(k, b)
    \/ \E k \in RKeys : RsExpire(k)

(***************************************************************************)
(* ProcessadorPedido (ecommerce_refatorado/processador_pedido.py) behind   *)
(* SistemaEcommerceRefatorado.processar_pedido_completo                    *)
(***************************************************************************)
\* The catalogue: two active products.
Produtos == {1, 2}
Preco == [p \in Produtos |-> IF p = 1 THEN 100 ELSE 50]

\* The customers: 1 may buy, 2 is blocked (both regular: no discount).
Clientes == {1, 2}
Bloqueado == [c \in Clientes |-> c = 2]
LimiteCredito == [c \in Clientes |-> 200]

FormasPagamentoEnum == {"cartao_credito", "cartao_debito", "pix", "boleto"}

\* endereco_entrega.estado as a sequence of characters.
EstadoSP == <<"S", "P">>

\* dados_pedido with every mandatory field: the customer's id (999: no such
\* customer), up to MaxLinhas lines [produto_id, quantidade] (999: no such
\* product), a forma_pagamento ("cheque" is not one), and the estado of the
\* address ("SP" or "SAO").
DadosPedido ==
    [cliente_id : Clientes \cup {999},
     produtos : UNION {[1..n -> [produto_id : Produtos \cup {999},
                                 quantidade : 1..MaxQuantidade]]
                       : n \in 0..MaxLinhas},
     forma_pagamento : {"pix", "cartao_credito", "cheque"},
     estado : {EstadoSP, <<"S", "A", "O">>}]

\* ResultadoPedido as processar_pedido_completo hands it on; an exception
\* that leaves processar reaches the caller of the facade.
NoResultado ==
    [tipo |-> "none", erro |-> "", pedido_id |-> 0, total_final |-> 0]

Erro(motivo) ==
    [tipo |-> "erro", erro |-> motivo, pedido_id |-> 0, total_final |-> 0]

Excecao(classe) ==
    [tipo |-> "excecao", erro |-> classe, pedido_id |-> 0, total_final |-> 0]

Sucesso(id, total) ==
    [tipo |-> "sucesso", erro |-> "", pedido_id |-> id, total_final |-> total]

\* CalculadoraFrete.calcular.
CalcularFrete(total_pedido, estado) ==
    IF estado = EstadoSP
    THEN IF total_pedido > 200 THEN 0 ELSE 15
    ELSE IF estado \in {<<"R", "J">>, <<"M", "G">>, <<"E", "S">>}
    THEN IF total_pedido > 300 THEN 0 ELSE 25
    ELSE IF total_pedido > 500 THEN 0 ELSE 35

\* Produto.tem_estoque_disponivel (every product is active).
TemEstoqueDisponivel(estoque, quantidade) == estoque >= quantidade

\* ProcessadorItens.processar_itens: each line is looked up and validated on
\* its own against the repository; an item keeps the Produto it saw.
RECURSIVE ProcessarItens(_, _)
ProcessarItens(produtos_dados, estoque) ==
    IF produtos_dados = <<>> THEN [itens |-> <<>>, erro |-> ""]
    ELSE LET item_dados == Head(produtos_dados)
             produto_id == item_dados.produto_id
         IN  IF produto_id \notin Produtos
             THEN [itens |-> <<>>, erro |-> "Produto nao encontrado"]
             ELSE IF ~TemEstoqueDisponivel(estoque[produto_id],
                                           item_dados.quantidade)
             THEN [itens |-> <<>>, erro |-> "Estoque insuficiente"]
             ELSE LET resto == ProcessarItens(Tail(produtos_dados), estoque)
                      item == [produto_id |-> produto_id,
                               estoque |-> estoque[produto_id],
                               quantidade |-> item_dados.quantidade,
                               preco_unitario |-> Preco[produto_id],
                               desconto |-> 0]
                  IN  IF resto.erro # "" THEN [itens |-> <<>>, erro |-> resto.erro]
                      ELSE [itens |-> <<item>> \o resto.itens, erro |-> ""]

\* sum(item.total for item in itens).
RECURSIVE TotalProdutos(_)
TotalProdutos(itens) ==
    IF itens = <<>> THEN 0
    ELSE Head(itens).preco_unitario * Head(itens).quantidade
         - Head(itens).desconto + TotalProdutos(Tail(itens))

\* Cliente.pode_comprar (every customer is active, none is pre-approved,
\* saldo_conta is 0): the reason of the refusal, "" when the customer may buy.
PodeComprar(cliente, total, forma_pagamento) ==
    IF Bloqueado[cliente] THEN "Cliente bloqueado"
    ELSE IF forma_pagamento = "cartao_credito" /\ LimiteCredito[cliente] < total
    THEN "Limite de credito insuficiente"
    ELSE IF forma_pagamento = "cartao_credito" /\ total > 5000
    THEN "Transacao requer pre-aprovacao"
    ELSE IF forma_pagamento = "cartao_debito" /\ 0 < total
    THEN "Saldo insuficiente"
    ELSE ""

\* ProcessadorPedido._atualizar_estoque: item.produto.reduzir_estoque works
\* on the Produto the item saw when it was validated, and the repository is
\* handed the outcome.
RECURSIVE AtualizarEstoque(_, _)
AtualizarEstoque(estoque, itens) ==
    IF itens = <<>> THEN estoque
    ELSE LET item == Head(itens)
         IN  AtualizarEstoque(
                 [estoque EXCEPT ![item.produto_id] =
                                     item.estoque - item.quantidade],
                 Tail(itens))

\* The repositories.
Sistema == [estoque |-> ec_estoque, pedidos |-> ec_pedidos,
            proximo_id |-> ec_proximo_id]

\* ProcessadorPedido.processar on the repositories s: the repositories and
\* the result afterwards.
Processar(s, dados) ==
    LET rejeita(r) == [estoque |-> s.estoque, pedidos |-> s.pedidos,
                       proximo_id |-> s.proximo_id, resultado |-> r]
        processados == ProcessarItens(dados.produtos, s.estoque)
        total_produtos == TotalProdutos(processados.itens)
        frete == CalcularFrete(total_produtos, dados.estado)
        total_final == total_produtos + frete
        erro_pagamento ==
            PodeComprar(dados.cliente_id, total_final, dados.forma_pagamento)
    IN  IF dados.produtos = <<>> THEN rejeita(Erro("Nenhum produto no pedido"))
        ELSE IF dados.cliente_id \notin Clientes
        THEN rejeita(Erro("Cliente nao encontrado"))
        ELSE IF processados.erro # "" THEN rejeita(Erro(processados.erro))
        ELSE IF Len(dados.estado) # 2 THEN rejeita(Excecao("ValueError"))
        ELSE IF erro_pagamento # "" THEN rejeita(Erro(erro_pagamento))
        ELSE IF dados.forma_pagamento \notin FormasPagamentoEnum
        THEN \* proximo_id() has run when FormaPagamentoEnum(...) raises
             [estoque |-> s.estoque, pedidos |-> s.pedidos,
              proximo_id |-> s.proximo_id + 1,
              resultado |-> Excecao("ValueError")]
        ELSE [estoque |-> AtualizarEstoque(s.estoque, processados.itens),
              pedidos |-> Append(s.pedidos,
                                 [id |-> s.proximo_id,
                                  cliente_id |-> dados.cliente_id,
                                  itens |-> processados.itens]),
              proximo_id |-> s.proximo_id + 1,
              resultado |-> Sucesso(s.proximo_id, total_final)]

\* SistemaEcommerceRefatorado after adicionar_produto / adicionar_cliente.
InitEcommerce ==
    /\ ec_estoque = [p \in Produtos |-> MaxEstoque]
    /\ ec_pedidos = <<>>
    /\ ec_proximo_id = 1
    /\ ec_resultado = NoResultado

\* sistema.processar_pedido_completo(dados).
ProcessarPedidoCompleto(dados) ==
    /\ ec_proximo_id <= MaxPedidos
    /\ LET depois == Processar(Sistema, dados)
       IN  /\ ec_estoque' = depois.estoque
           /\ ec_pedidos' = depois.pedidos
           /\ ec_proximo_id' = depois.proximo_id
           /\ ec_resultado' = depois.resultado
    /\ UNCHANGED otherThanEcommerce

NextEcommerce == \E dados \in DadosPedido : ProcessarPedidoCompleto(dados)

(***************************************************************************)
(* Specifications                                                          *)
(***************************************************************************)
vars == <<cbVars, cacheVars, enrichVars, rsVars, ecVars, winVars>>

\* The breaker before any call, for the cache's specification.
IdleCB ==
    /\ config = [failure_threshold |-> 1, recovery_timeout |-> 0,
                 success_threshold |-> 1, expected_exception |-> "Exception",
                 fallback |-> FALSE]
    /\ state = CLOSED
    /\ stats = StatsInit
    /\ now = 0
    /\ last_state_change = 0
    /\ half_open_success_count = 0
    /\ lock_holder = NoCaller
    /\ lock_waiters = <<>>
    /\ pc = [c \in Callers |-> "idle"]
    /\ last = NoCall

\* The cache before any operation, for the breaker's specification.
IdleCache ==
    /\ cache_config = [max_size |-> 1, default_ttl |-> None, strategy |-> LRU,
                       enable_compression |-> FALSE]
    /\ cache = <<>>
    /\ access_order = <<>>
    /\ frequency_counter = <<>>
    /\ metrics = [hits |-> 0, misses |-> 0, evictions |-> 0, compressions |-> 0]
    /\ cache_result = NoResult
    /\ cache_now = 0

\* The orchestrator before any enrichment, for the other specifications.
IdleEnrich ==
    /\ en_service = RESILIENT
    /\ en_isbn = FALSE
    /\ en_pc = "idle"
    /\ en_status = [i \in Sources |-> "absent"]
    /\ en_outcome = [i \in Sources |-> NoOutcome]
    /\ en_return = NoReturn

\* CacheService, the order system and the lone window before any operation.
IdleOthers == InitRedis /\ InitEcommerce /\ InitWindow

\* The breaker under every configuration.
InitSpecCB == InitCB /\ IdleCache /\ IdleEnrich /\ IdleOthers

SpecCB == InitSpecCB /\ [][NextCB]_vars

\* The breaker under the event loop: a caller that holds the lock gets to run
\* its next step; asyncio.wait_for ends an operation that does not end by
\* itself (the timeout fires); the fallback ends.  Nothing makes a caller
\* call, and nothing makes the operation return or raise.
FairnessCB ==
    \A c \in Callers :
        /\ WF_vars(Check(c))
        /\ WF_vars(Reject(c))
        /\ WF_vars(StartFallback(c))
        /\ WF_vars(Invoke(c))
        /\ WF_vars(OpTimesOut(c))
        /\ WF_vars(FallbackReturns(c) \/ FallbackRaises(c))

\* Breakers with both thresholds at 1 and the longest recovery_timeout:
\* every state of the breaker and every path through call() is reached, in
\* fewer states.
InitSpecCBFair ==
    InitCB /\ config.failure_threshold = 1 /\ config.success_threshold = 1
           /\ config.recovery_timeout = MaxRecoveryTimeout
           /\ IdleCache /\ IdleEnrich /\ IdleOthers

SpecCBFair == InitSpecCBFair /\ [][NextCB]_vars /\ FairnessCB

\* Every strategy and capacity; small values only (compression is inert).
NextCache == CacheNext(Keys, {SmallValue}, {None, 1})

InitSpecCache ==
    InitCache /\ cache_config.enable_compression /\ IdleCB /\ IdleEnrich /\ IdleOthers

SpecCache == InitSpecCache /\ [][NextCache]_vars

\* LRU stores of every capacity.
InitSpecLRU ==
    InitCache /\ cache_config.strategy = LRU /\ cache_config.enable_compression
              /\ IdleCB /\ IdleEnrich /\ IdleOthers

\* set is called without a ttl argument: entries carry the default ttl.
NextLRU == CacheNext(Keys, {SmallValue}, {None})

SpecLRU == InitSpecLRU /\ [][NextLRU]_vars

\* LFU stores whose entries never expire.
InitSpecLFU ==
    InitCache /\ cache_config.strategy = LFU /\ cache_config.enable_compression
              /\ cache_config.default_ttl = None /\ IdleCB /\ IdleEnrich /\ IdleOthers

NextLFU ==
    \/ \E k \in Keys, force \in BOOLEAN : CacheSet(k, SmallValue, None, force)
    \/ \E k \in Keys : CacheGetWithin(k, MaxLFUGets)
    \/ \E k \in Keys : CacheDelete(k)
    \/ CacheCleanup
    \/ CacheTick

SpecLFU == InitSpecLFU /\ [][NextLFU]_vars

\* Stores with recency or frequency bookkeeping whose entries can expire.
InitSpecExpiry ==
    InitCache /\ cache_config.strategy \in {LRU, LFU}
              /\ cache_config.enable_compression /\ IdleCB /\ IdleEnrich /\ IdleOthers

NextExpiry == CacheNext({"a", "b"}, {SmallValue}, {None, 1})

SpecExpiry == InitSpecExpiry /\ [][NextExpiry]_vars

\* Stores with and without compression, holding values of every kind.
InitSpecValues ==
    InitCache /\ cache_config.strategy = LRU /\ IdleCB /\ IdleEnrich /\ IdleOthers

NextValues == CacheNext({"a", "b"}, AllValues, {None})

SpecValues == InitSpecValues /\ [][NextValues]_vars

\* Both orchestrators, with and without an isbn.
InitSpecEnrich == InitEnrich /\ IdleCB /\ IdleCache /\ IdleOthers

SpecEnrich == InitSpecEnrich /\ [][NextEnrich]_vars

\* CacheService over a Redis whose calls can fail.
InitSpecRedis ==
    InitRedis /\ InitEcommerce /\ InitWindow /\ IdleCB /\ IdleCache /\ IdleEnrich

SpecRedis == InitSpecRedis /\ [][NextRedis]_vars

\* The order system taking orders of every shape.
InitSpecEcommerce ==
    InitEcommerce /\ InitRedis /\ InitWindow /\ IdleCB /\ IdleCache /\ IdleEnrich

SpecEcommerce == InitSpecEcommerce /\ [][NextEcommerce]_vars

\* Stores of every strategy without compression, two keys: an entry set
\* without a ttl carries the default ttl 0 and expires at the next tick, an
\* entry set with ttl 1 outlives it.
InitSpecFrame ==
    InitCache /\ ~cache_config.enable_compression
              /\ cache_config.default_ttl = 0
              /\ IdleCB /\ IdleEnrich /\ IdleOthers

NextFrame == CacheNext({"a", "b"}, {SmallValue}, {None, 1})

SpecFrame == InitSpecFrame /\ [][NextFrame]_vars

\* TTL stores without compression, three keys, default ttl 0; no get is
\* made, so that an entry's created_at and ttl are all that tells it apart.
InitSpecTTL ==
    InitCache /\ cache_config.strategy = TTL /\ ~cache_config.enable_compression
              /\ cache_config.default_ttl = 0
              /\ IdleCB /\ IdleEnrich /\ IdleOthers

NextTTL ==
    \/ \E k \in Keys, ttl \in {None, 1}, force \in BOOLEAN :
          CacheSet(k, SmallValue, ttl, force)
    \/ \E k \in Keys : CacheDelete(k)
    \/ CacheTick

SpecTTL == InitSpecTTL /\ [][NextTTL]_vars

\* A CircuitBreakerStats on which successes and failures are recorded in
\* every order.
InitSpecWindow ==
    InitWindow /\ InitRedis /\ InitEcommerce /\ IdleCB /\ IdleCache /\ IdleEnrich

SpecWindow == InitSpecWindow /\ [][NextWindow]_vars

TypeOKCB ==
    /\ state \in CircuitState
    /\ Len(stats.requests) <= WindowSize
    /\ last.outcome \in Outcomes

(***************************************************************************)
(* Properties of the circuit breaker                                       *)
(***************************************************************************)
InCall(c) == pc[c] \in {"locked", "checked", "running", "fallback"}

\* The n most recent outcomes in the window are all failures.
TailFailures(n) ==
    /\ Len(stats.requests) >= n
    /\ \A i \in 1..Len(stats.requests) :
          i > Len(stats.requests) - n => stats.requests[i] = FALSE

\* The window after one more outcome has been pushed (oldest dropped first).
Pushed(requests, success) ==
    IF Len(requests) >= WindowSize
    THEN Append(Tail(requests), success)
    ELSE Append(requests, success)

\* Caller c's step is the transition check at the start of its call.
CheckStep(c) == pc[c] = "locked" /\ pc'[c] = "checked"
\* Caller c's step is the decision taken after the transition check.
DecisionStep(c) == pc[c] = "checked" /\ pc'[c] # "checked"
\* Caller c's step ends the execution of the wrapped operation.
CompletionStep(c) == pc[c] = "running" /\ pc'[c] # "running"
\* Caller c's step ends the execution of the fallback.
FallbackEndStep(c) == pc[c] = "fallback" /\ pc'[c] # "fallback"
\* The operation ended in a way the configuration classifies as a failure.
ClassifiedEvent(event) ==
    /\ event \in OpExceptions
    /\ IsInstance(event, config.expected_exception)

\* C2 (as stated): once failure_threshold consecutive failures have been
\* recorded and the last of these calls has returned, the state is OPEN, and
\* an operation is in flight after that only as a recovery probe.
C2_OpenAfterThresholdFailures ==
    TailFailures(config.failure_threshold) =>
        /\ lock_holder = NoCaller => state = OPEN
        /\ \A c \in Callers : pc[c] = "running" => state = HALF_OPEN

\* C2 (amended): after failure_threshold consecutive failures in the window,
\* the transition check of the next call made while CLOSED sets the state to
\* OPEN (and stamps last_state_change); a check that finds OPEN with less than
\* recovery_timeout elapsed leaves it OPEN; and a call whose check left the
\* state OPEN never invokes the wrapped operation.
C2_OpenAtNextCall ==
    [][\A c \in Callers :
        /\ (CheckStep(c) /\ state = CLOSED
                /\ TailFailures(config.failure_threshold))
             => (state' = OPEN /\ last_state_change' = now)
        /\ (CheckStep(c) /\ state = OPEN
                /\ now - last_state_change < config.recovery_timeout)
             => (state' = OPEN /\ UNCHANGED last_state_change)
        /\ (DecisionStep(c) /\ state = OPEN)
             => (pc'[c] \in {"idle", "fallback"}
                   /\ (pc'[c] = "idle" => ~last'.invoked))
        /\ FallbackEndStep(c) => ~last'.invoked
      ]_vars

\* C2 witness: the call after failure_threshold straight failures was
\* rejected without invoking the operation.
C2_Witness ==
    /\ lock_holder = NoCaller
    /\ last.outcome = CircuitBreakerOpenException
    /\ ~last.invoked
    /\ state = OPEN
    /\ config.failure_threshold >= 2
    /\ Len(stats.requests) = config.failure_threshold
    /\ TailFailures(config.failure_threshold)

\* C3: when the state is OPEN after the transition check, the wrapped
\* operation is not invoked; the call runs the fallback and hands back what
\* the fallback produced when one is configured, and raises
\* CircuitBreakerOpenException otherwise.
C3_OpenRejects ==
    [][\A c \in Callers :
        /\ (DecisionStep(c) /\ state = OPEN) =>
              IF config.fallback
              THEN pc'[c] = "fallback" /\ UNCHANGED last
              ELSE /\ pc'[c] = "idle"
                   /\ ~last'.invoked
                   /\ last'.outcome = CircuitBreakerOpenException
        /\ FallbackEndStep(c) =>
              /\ pc'[c] = "idle"
              /\ ~last'.invoked
              /\ last'.op_event = "fallback_returned"
                    => last'.outcome = "fallback_result"
        /\ pc'[c] \in {"running", "fallback"} =>
              (state' = OPEN <=> pc'[c] = "fallback")
      ]_vars

\* C3 witness: an OPEN breaker with a fallback answered with the fallback's
\* result and did not invoke the operation.
C3_Witness ==
    /\ lock_holder = NoCaller
    /\ last.outcome = "fallback_result"
    /\ ~last.invoked
    /\ state = OPEN

\* C4: a transition check that finds OPEN with recovery_timeout elapsed sets
\* HALF_OPEN, resets the half-open success counter and stamps
\* last_state_change, and the call then invokes the operation once, no other
\* caller running a state check in between; with less than recovery_timeout
\* elapsed the state stays OPEN and the call is rejected.
C4_Recovery ==
    [][\A c \in Callers :
        /\ (CheckStep(c) /\ state = OPEN) =>
              IF now - last_state_change >= config.recovery_timeout
              THEN /\ state' = HALF_OPEN
                   /\ half_open_success_count' = 0
                   /\ last_state_change' = now
              ELSE /\ state' = OPEN
                   /\ UNCHANGED <<half_open_success_count, last_state_change>>
        /\ (DecisionStep(c) /\ state = HALF_OPEN) => pc'[c] = "running"
        /\ (DecisionStep(c) /\ state = OPEN) => pc'[c] # "running"
        /\ (pc[c] \in {"checked", "running"}) =>
              \A d \in Callers \ {c} : ~CheckStep(d) /\ pc'[d] # "running"
        /\ CompletionStep(c) => (pc'[c] = "idle" /\ last'.invoked)
      ]_vars

\* C4 witness: the probe of a breaker that has just gone HALF_OPEN after a
\* positive recovery_timeout is in flight.
C4_Witness ==
    \E c \in Callers :
        /\ pc[c] = "running"
        /\ state = HALF_OPEN
        /\ half_open_success_count = 0
        /\ config.recovery_timeout > 0
        /\ last_state_change = now
        /\ stats.last_failure_time # None
        /\ now - stats.last_failure_time >= config.recovery_timeout

\* C5: in HALF_OPEN a success that brings the half-open counter to
\* success_threshold closes the breaker (and resets the counter), a success
\* short of it leaves HALF_OPEN with the counter raised by one, and a
\* recorded failure goes back to OPEN with the counter at 0.
C5_HalfOpenOutcome ==
    [][\A c \in Callers :
        (CompletionStep(c) /\ state = HALF_OPEN) =>
            /\ last'.op_event = "returned" =>
                  IF half_open_success_count + 1 >= config.success_threshold
                  THEN state' = CLOSED /\ half_open_success_count' = 0
                  ELSE state' = HALF_OPEN
                       /\ half_open_success_count' = half_open_success_count + 1
            /\ (last'.op_event = "timeout" \/ ClassifiedEvent(last'.op_event)) =>
                  (state' = OPEN /\ half_open_success_count' = 0)
      ]_vars

\* C5 witness: the breaker closed again on the second half-open success.
C5_Witness ==
    /\ lock_holder = NoCaller
    /\ last.outcome = "result"
    /\ state = CLOSED
    /\ last_state_change > 0
    /\ config.success_threshold >= 2
    /\ Len(stats.requests) >= 2
    /\ stats.requests[Len(stats.requests)] = TRUE
    /\ stats.requests[Len(stats.requests) - 1] = TRUE

\* C6: the calls on one breaker are serialized: at most one caller is between
\* acquiring and releasing the lock, it is the lock holder, the breaker's
\* state and statistics change only in its steps, and the lock passes on
\* only when that call is over.
C6_CallsSerialized ==
    [][/\ \A c, d \in Callers : (InCall(c) /\ InCall(d)) => c = d
       /\ \A c \in Callers : InCall(c) => lock_holder = c
       /\ breakerVars' # breakerVars =>
             (lock_holder # NoCaller /\ InCall(lock_holder))
       /\ (lock_holder # NoCaller /\ lock_holder' # lock_holder) =>
             (pc'[lock_holder] = "idle" /\ pc[lock_holder] # "locked")
      ]_vars

\* C6 witness: a second caller waits while the first one's operation runs.
C6_Witness ==
    \E c, d \in Callers :
        /\ c # d
        /\ pc[c] = "running"
        /\ pc[d] = "waiting"

\* C7 (as stated): the lock is not held while a wrapped operation is in
\* flight, so no other caller has to wait for it.
C7_LockFreeDuringOperation ==
    \A c \in Callers :
        pc[c] = "running" =>
            /\ lock_holder # c
            /\ \A d \in Callers : pc[d] # "waiting"

\* C8 (as stated): a call whose operation timed out records one failure and
\* raises CircuitBreakerTimeoutException, whatever expected_exception is.
C8_TimeoutRaisesTimeoutException ==
    [][\A c \in Callers :
        (CompletionStep(c) /\ last'.op_event = "timeout") =>
            /\ last'.outcome = CircuitBreakerTimeoutException
            /\ stats'.requests = Pushed(stats.requests, FALSE)
      ]_vars

\* C9: when the operation raises an exception matching expected_exception,
\* one failure is pushed on the window (HALF_OPEN goes to OPEN, other states
\* stay) and the caller gets that same exception.
C9_ClassifiedFailure ==
    [][\A c \in Callers :
        (CompletionStep(c) /\ ClassifiedEvent(last'.op_event)) =>
            /\ last'.outcome = last'.op_event
            /\ stats'.requests = Pushed(stats.requests, FALSE)
            /\ stats'.failure_count =
                  Cardinality({i \in 1..Len(stats'.requests) : ~stats'.requests[i]})
            /\ stats'.success_count = Len(stats'.requests) - stats'.failure_count
            /\ stats'.last_failure_time = now
            /\ state = HALF_OPEN => state' = OPEN
            /\ state # HALF_OPEN => state' = state
      ]_vars

\* C9 witness: a classified exception sent a HALF_OPEN breaker back to OPEN
\* and reached the caller.
C9_Witness ==
    /\ lock_holder = NoCaller
    /\ last.op_event = HTTPError
    /\ last.outcome = HTTPError
    /\ state = OPEN
    /\ last_state_change > 0
    /\ last_state_change = stats.last_failure_time
    /\ config.recovery_timeout > 0

\* C10: when the fallback of an OPEN breaker raises, the caller gets that
\* exception and the window, the counts, last_failure_time, the state and
\* last_state_change stay as they were.
C10_FallbackFailure ==
    [][\A c \in Callers :
        (FallbackEndStep(c) /\ last'.op_event = "fallback_raised") =>
            /\ state = OPEN
            /\ last'.outcome = FallbackError
            /\ UNCHANGED <<state, stats, last_state_change,
                           half_open_success_count>>
      ]_vars

\* C10 witness: a fallback failure reached the caller of an OPEN breaker.
C10_Witness ==
    /\ lock_holder = NoCaller
    /\ last.op_event = "fallback_raised"
    /\ last.outcome = FallbackError
    /\ state = OPEN
    /\ stats.failure_count >= 1

\* C15: success_count is the number of successes and failure_count the
\* number of failures held in the window, also after the window has wrapped
\* and old outcomes have been dropped.
C15_CountsMatchWindow ==
    /\ stats.success_count =
          Cardinality({i \in 1..Len(stats.requests) : stats.requests[i]})
    /\ stats.failure_count =
          Cardinality({i \in 1..Len(stats.requests) : ~stats.requests[i]})

\* C15 witness: the window is full of successes although a failure was
\* recorded earlier: the failure has been dropped and its count taken back.
C15_Witness ==
    /\ Len(stats.requests) = WindowSize
    /\ \A i \in 1..Len(stats.requests) : stats.requests[i]
    /\ stats.last_failure_time # None
    /\ stats.failure_count = 0
    /\ stats.success_count = WindowSize

(***************************************************************************)
(* Properties of the cache                                                 *)
(***************************************************************************)
\* C1 (as stated): whatever the strategy, after every completed operation
\* the number of stored entries is at most max_size.
C1_SizeWithinCapacity ==
    Len(cache) <= cache_config.max_size

\* The entry stored under key k in dict d.
EntryOf(d, k) == d[DictIndex(d, k)].entry
\* The keys of dict d.
KeysOf(d) == {d[i].key : i \in 1..Len(d)}
\* The elements of list lst.
Elems(lst) == {lst[i] : i \in 1..Len(lst)}
\* List lst without the elements outside set S.
Restrict(lst, S) == SelectSeq(lst, LAMBDA x : x \in S)
\* The step is a completed set (the clock does not move during it).
SetStep == cache_result'.op = "set" /\ cache_now' = cache_now
\* The step is a completed get.
GetStep == cache_result'.op = "get" /\ cache_now' = cache_now
                /\ metrics'.hits + metrics'.misses = metrics.hits + metrics.misses + 1
\* The recency list holds each stored key once, in the order of last touch.
RecencyIsTouchOrder ==
    /\ Elems(access_order) = KeysOf(cache)
    /\ Len(access_order) = Len(cache)
    /\ \A i, j \in 1..Len(access_order) :
          i < j => EntryOf(cache, access_order[i]).accessed_at
                      <= EntryOf(cache, access_order[j]).accessed_at

\* C11: under LRU the recency list holds the stored keys in the order of
\* their last touch: a set or a get hit of key k makes k the most recent and
\* keeps the order of the other keys.  A set of a new key at capacity removes
\* exactly the key at the front of that order (no stored key was touched
\* earlier than it) and keeps all the others; any other set removes nothing.
C11_LRUEvictsOldestTouch ==
    [][cache_config.strategy = LRU =>
        /\ RecencyIsTouchOrder'
        /\ SetStep =>
              \E k \in KeysOf(cache') :
                 /\ access_order'[Len(access_order')] = k
                 /\ IF k \notin KeysOf(cache) /\ Len(cache) >= cache_config.max_size
                    THEN \E e \in KeysOf(cache) :
                            /\ e = access_order[1]
                            /\ \A x \in KeysOf(cache) :
                                  EntryOf(cache, e).accessed_at
                                     <= EntryOf(cache, x).accessed_at
                            /\ KeysOf(cache') = (KeysOf(cache) \ {e}) \cup {k}
                            /\ metrics'.evictions = metrics.evictions + 1
                    ELSE /\ KeysOf(cache') = KeysOf(cache) \cup {k}
                         /\ metrics'.evictions = metrics.evictions
                 /\ Restrict(access_order', KeysOf(cache') \ {k})
                       = Restrict(access_order, KeysOf(cache') \ {k})
        /\ (GetStep /\ cache_result'.ok) =>
              \E k \in KeysOf(cache) :
                 /\ access_order'[Len(access_order')] = k
                 /\ EntryOf(cache', k).accessed_at = cache_now
                 /\ KeysOf(cache') = KeysOf(cache)
                 /\ Restrict(access_order', KeysOf(cache) \ {k})
                       = Restrict(access_order, KeysOf(cache) \ {k})
      ]_vars

\* C11 witness: at capacity 2, after set a, set b, get a, set c the store
\* holds exactly a and c: b was evicted although a was inserted first.
C11_Witness ==
    /\ cache_config.strategy = LRU
    /\ cache_config.max_size = 2
    /\ access_order = <<"a", "c">>
    /\ KeysOf(cache) = {"a", "c"}
    /\ EntryOf(cache, "a").access_count = 2
    /\ metrics.hits = 1
    /\ metrics.evictions = 1

\* The access counts of the stored entries are pairwise distinct.
DistinctAccessCounts ==
    \A i, j \in 1..Len(cache) :
        i # j => cache[i].entry.access_count # cache[j].entry.access_count

\* C12 (as stated): under LFU, when a set evicts (new key at capacity) and
\* the stored entries' access counts are pairwise distinct, exactly one entry
\* is removed and it is the one with the strictly lowest access_count.
C12_LFUEvictsLowestAccessCount ==
    [][(cache_config.strategy = LFU /\ SetStep /\ DistinctAccessCounts
            /\ Len(cache) >= cache_config.max_size
            /\ KeysOf(cache') \ KeysOf(cache) # {}) =>
          \E e \in KeysOf(cache) :
             /\ KeysOf(cache) \ KeysOf(cache') = {e}
             /\ \A x \in KeysOf(cache) \ {e} :
                   EntryOf(cache, e).access_count < EntryOf(cache, x).access_count
      ]_vars

\* Every entry of dict d other than k's is the same in dict e.
OthersKept(d, e, k) ==
    /\ KeysOf(e) \ {k} = KeysOf(d) \ {k}
    /\ \A x \in KeysOf(d) \ {k} : EntryOf(e, x) = EntryOf(d, x)

C14_RoundTrip ==
    \A k \in Keys, v \in AllValues, ttl \in TTLArgs, force \in BOOLEAN :
        LET stored == Set(Manager, cache_config, k, v, ttl, force, cache_now)[1]
        IN  Get(stored, cache_config, k, cache_now)[2] = v

(***************************************************************************)
(* Properties of the enrichment orchestrators                              *)
(***************************************************************************)
\* The step hands the outcome of enrich_book_data to its caller.
ReturnStep == en_pc = "waiting" /\ en_pc' = "returned"
\* The sources whose call returned a dict.
Survivors(outcome) == {i \in Sources : outcome[i].exc = "none"}

C17_FirstNonEmptyWins ==
    [][(ReturnStep /\ en_return'.kind = "merged") =>
          \A f \in Fields : \A i \in Survivors(en_outcome') :
             (/\ Truthy(en_outcome'[i].dict[f])
              /\ \A j \in Survivors(en_outcome') :
                    j < i => ~Truthy(en_outcome'[j].dict[f]))
                => en_return'.value[f] = en_outcome'[i].dict[f]
      ]_vars

\* C18 (as stated): when the global timeout ends the wait, the result holds
\* the fields of the sources that had completed; it is empty only if no
\* source had completed with a non-empty field.
C18_TimeoutKeepsCompleted ==
    [][(ReturnStep /\ en_return'.kind = "timeout") =>
          \A f \in Fields : \A i \in Survivors(en_outcome') :
             Truthy(en_outcome'[i].dict[f]) => en_return'.value[f] # NoField
      ]_vars

\* C19 (as stated): while the call of one source is in flight, no other
\* source of the enrichment is still waiting to be started.
C19_AllStartedBeforeWaiting ==
    \A i \in Sources :
        en_status[i] = "running" =>
            \A j \in Sources : en_status[j] # "created"

(***************************************************************************)
(* Concurrent callers of one SmartCacheManager.  The awaits inside get,    *)
(* set, _evict_entries and cleanup_expired are on coroutines of the        *)
(* manager itself (delete, _evict_entries) that never wait for anything,   *)
(* so the event loop switches callers only between whole operations: the   *)
(* interleavings of several callers are the sequences of CacheSet,         *)
(* CacheGet, CacheDelete and CacheCleanup steps.                           *)
(***************************************************************************)
\* No key is in the recency list or the frequency map without an entry, and
\* no entry lacks the bookkeeping of the store's strategy.
BookkeepingConsistent ==
    /\ Elems(access_order) \subseteq KeysOf(cache)
    /\ KeysOf(frequency_counter) \subseteq KeysOf(cache)
    /\ cache_config.strategy = LRU => KeysOf(cache) \subseteq Elems(access_order)
    /\ cache_config.strategy = LFU =>
          KeysOf(cache) \subseteq KeysOf(frequency_counter)

\* C20 (as stated): whatever the interleaving of the callers' operations,
\* the bookkeeping is consistent with the key mapping and the store is not
\* above its capacity.
C20_ConcurrentOpsKeepStore ==
    /\ BookkeepingConsistent
    /\ Len(cache) <= cache_config.max_size

(***************************************************************************)
(* Properties of CacheService                                              *)
(***************************************************************************)
\* C21: when the call on the Redis client fails (a connection error or any
\* other exception), get returns None, set and delete return False, and no
\* exception reaches the caller.
C21_BackendFailureIsAMiss ==
    rs_result.backend \in BackendErrors =>
        /\ rs_result.op = "get" => rs_result.ret = "None"
        /\ rs_result.op \in {"set", "delete"} => rs_result.ret = "False"
        /\ rs_result.ret \notin BackendErrors

\* A get of a key Redis holds ends as a miss because the client timed out.
C21_Witness ==
    /\ rs_result = [op |-> "get", backend |-> "redis.TimeoutError", ret |-> "None"]
    /\ \A k \in RKeys : rs_store[k] # Missing

(***************************************************************************)
(* Properties of the order system                                          *)
(***************************************************************************)
\* The reasons of a rejection: the customer is unknown or blocked, a line
\* names an unknown product, or a line asks for more than the product's
\* estoque.
Rejeitado(dados) ==
    \/ dados.cliente_id \notin Clientes
    \/ Bloqueado[dados.cliente_id]
    \/ \E i \in 1..Len(dados.produtos) :
          \/ dados.produtos[i].produto_id \notin Produtos
          \/ dados.produtos[i].quantidade
                 > ec_estoque[dados.produtos[i].produto_id]

\* C22: an order that is rejected (unknown customer, blocked customer,
\* unknown product, a line above the available estoque) gets an error result,
\* not an exception, and leaves the estoque, the stored orders and the next
\* order id as they were.
C22_RejectedOrderLeavesNoTrace ==
    \A dados \in DadosPedido :
        Rejeitado(dados) =>
            LET depois == Processar(Sistema, dados)
            IN  /\ depois.resultado.tipo = "erro"
                /\ depois.estoque = ec_estoque
                /\ depois.pedidos = ec_pedidos
                /\ depois.proximo_id = ec_proximo_id

(***************************************************************************)
(* Properties of the cache: frame effects of set, get, delete, eviction    *)
(***************************************************************************)
\* The keys the step adds to the key mapping, and those it removes from it.
AddedKeys == KeysOf(cache') \ KeysOf(cache)
RemovedKeys == KeysOf(cache) \ KeysOf(cache')

\* C23 (as stated): whatever the strategy, a set of a key that is not stored
\* while the size equals the capacity removes exactly one other entry; a set
\* of a stored key removes no entry; a set below capacity removes no entry.
C23_SetEvictsOneAtCapacity ==
    [][SetStep =>
        /\ (AddedKeys # {} /\ Len(cache) = cache_config.max_size)
              => Cardinality(RemovedKeys) = 1
        /\ AddedKeys = {} => RemovedKeys = {}
        /\ Len(cache) < cache_config.max_size => RemovedKeys = {}
      ]_vars

\* The count the frequency map d holds for key k.
FreqOf(d, k) == d[DictIndex(d, k)].count

\* Key k is stored and its entry has not expired at time t.
Fresh(k, t) ==
    /\ k \in KeysOf(cache)
    /\ \/ EntryOf(cache, k).ttl = None
       \/ t - EntryOf(cache, k).created_at <= EntryOf(cache, k).ttl

\* C24: a get of a stored, unexpired key sets the entry's accessed_at to now
\* and raises its access_count by 1, counts one hit and no miss, moves the
\* key to the most recent end of the recency list under LRU, raises the
\* key's frequency by 1 under LFU, and changes no other entry, no other
\* position of the recency list and no other frequency.
C24_GetHitTouchesOnlyItsEntry ==
    \A k \in Keys :
        Fresh(k, cache_now) =>
            LET after == Get(Manager, cache_config, k, cache_now)[1]
            IN  /\ KeysOf(after.cache) = KeysOf(cache)
                /\ EntryOf(after.cache, k) =
                      [EntryOf(cache, k) EXCEPT !.accessed_at = cache_now,
                                                !.access_count = @ + 1]
                /\ OthersKept(cache, after.cache, k)
                /\ after.metrics = [metrics EXCEPT !.hits = @ + 1]
                /\ IF cache_config.strategy = LRU
                   THEN /\ after.access_order[Len(after.access_order)] = k
                        /\ Len(after.access_order) = Len(access_order)
                        /\ Restrict(after.access_order, Keys \ {k})
                              = Restrict(access_order, Keys \ {k})
                   ELSE after.access_order = access_order
                /\ IF cache_config.strategy = LFU
                   THEN /\ KeysOf(after.frequency_counter)
                              = KeysOf(frequency_counter)
                        /\ Len(after.frequency_counter) = Len(frequency_counter)
                        /\ FreqOf(after.frequency_counter, k)
                              = FreqOf(frequency_counter, k) + 1
                        /\ \A x \in KeysOf(frequency_counter) \ {k} :
                              FreqOf(after.frequency_counter, x)
                                 = FreqOf(frequency_counter, x)
                   ELSE after.frequency_counter = frequency_counter

\* C24 witness: under LRU with "a" set before "b", a get of "a" hit: "a" is
\* now the most recent key, with two accesses, and "b" is as it was stored.
C24_Witness ==
    /\ cache_config.strategy = LRU
    /\ cache_result.op = "get" /\ cache_result.ok
    /\ access_order = <<"b", "a">>
    /\ metrics.hits = 1 /\ metrics.misses = 0
    /\ EntryOf(cache, "a").access_count = 2
    /\ EntryOf(cache, "b").access_count = 1
    /\ EntryOf(cache, "a").accessed_at = cache_now

\* Key k is stored and its entry has expired at time t.
Stale(k, t) == k \in KeysOf(cache) /\ ~Fresh(k, t)

\* The bookkeeping of the keys other than those in S is the same in manager
\* m as in the store: their order in the recency list, their frequencies.
BookkeepingKept(m, S) ==
    /\ Restrict(m.access_order, Keys \ S) = Restrict(access_order, Keys \ S)
    /\ KeysOf(m.frequency_counter) \ S = KeysOf(frequency_counter) \ S
    /\ \A x \in KeysOf(frequency_counter) \ S :
          FreqOf(m.frequency_counter, x) = FreqOf(frequency_counter, x)

\* C25: delete(k) returns true exactly when k is stored; afterwards k is in
\* none of the key mapping, the recency list and the frequency map, and the
\* entries and the bookkeeping of the other keys are as before; the delete
\* of an unknown key changes nothing.
C25_DeleteRemovesOnlyItsKey ==
    \A k \in Keys :
        LET r == Delete(Manager, k)
        IN  /\ r[2] = (k \in KeysOf(cache))
            /\ k \notin KeysOf(r[1].cache)
            /\ k \notin Elems(r[1].access_order)
            /\ k \notin KeysOf(r[1].frequency_counter)
            /\ OthersKept(cache, r[1].cache, k)
            /\ BookkeepingKept(r[1], {k})
            /\ r[1].metrics = metrics
            /\ k \notin KeysOf(cache) => r[1] = Manager

\* C25 witness: under LFU a delete returned true and left the other key
\* stored, with its frequency.
C25_Witness ==
    /\ cache_config.strategy = LFU
    /\ cache_result.op = "delete" /\ cache_result.ok
    /\ Len(cache) = 1
    /\ KeysOf(frequency_counter) = KeysOf(cache)
    /\ frequency_counter[1].count = 2

\* The stored keys whose entry has expired at time t.
ExpiredKeys(t) == {k \in KeysOf(cache) : Stale(k, t)}

\* The smaller of two numbers.
Min(a, b) == IF a < b THEN a ELSE b

\* C26: under the TTL strategy the eviction of n entries removes exactly
\* min(n, size) of them: expired ones only when at least n entries are
\* expired; otherwise all the expired ones and, of the others, those with
\* the oldest created_at.
C26_TTLEvictsExpiredThenOldest ==
    cache_config.strategy = TTL =>
        \A n \in 0..(MaxCapacity + 1) :
            LET after == EvictEntries(Manager, TTL, n, cache_now)
                removed == KeysOf(cache) \ KeysOf(after.cache)
                expired == ExpiredKeys(cache_now)
            IN  /\ KeysOf(after.cache) \subseteq KeysOf(cache)
                /\ Cardinality(removed) = Min(n, Len(cache))
                /\ after.metrics.evictions = metrics.evictions + Min(n, Len(cache))
                /\ IF Cardinality(expired) >= n
                   THEN removed \subseteq expired
                   ELSE /\ expired \subseteq removed
                        /\ \A x \in removed \ expired :
                              \A y \in KeysOf(after.cache) :
                                 EntryOf(cache, x).created_at
                                    <= EntryOf(cache, y).created_at
                /\ \A y \in KeysOf(after.cache) :
                      EntryOf(after.cache, y) = EntryOf(cache, y)

\* C26 witness: in a TTL store of capacity 2 holding "a" then "b", the set
\* of "c" evicted "b" and kept "a", which stands first in the mapping.
C26_Witness ==
    /\ cache_config.strategy = TTL
    /\ cache_config.max_size = 2
    /\ cache_result.op = "set"
    /\ metrics.evictions = 1
    /\ Len(cache) = 2
    /\ cache[1].key = "a" /\ cache[2].key = "c"
    /\ cache[1].entry.created_at = cache[2].entry.created_at
    /\ cache_now = 1

\* C27: cleanup_expired leaves no expired entry, keeps every unexpired
\* entry as it was, drops the removed keys from the recency list and the
\* frequency map, keeps the bookkeeping of the other keys, and changes none
\* of the counters.
C27_CleanupRemovesExactlyExpired ==
    LET after == CleanupExpired(Manager, cache_now)
        expired == ExpiredKeys(cache_now)
    IN  /\ KeysOf(after.cache) = KeysOf(cache) \ expired
        /\ \A k \in KeysOf(cache) \ expired :
              EntryOf(after.cache, k) = EntryOf(cache, k)
        /\ Elems(after.access_order) \cap expired = {}
        /\ KeysOf(after.frequency_counter) \cap expired = {}
        /\ BookkeepingKept(after, expired)
        /\ after.metrics = metrics

\* C27 witness: a cleanup has just removed an expired entry and left an
\* unexpired one, created at the same time, in a store that counted a hit.
C27_Witness ==
    /\ cache_result.op = "cleanup_expired"
    /\ cache_now = 1
    /\ Len(cache) = 1
    /\ cache[1].entry.created_at = 0
    /\ cache[1].entry.ttl = 1
    /\ metrics.hits = 1
    /\ metrics.evictions = 0
    /\ Len(access_order) + Len(frequency_counter) = 1

\* C28 (as stated): set(k, v, ttl) stores under k an entry with created_at =
\* accessed_at = now, access_count = 1 and the ttl that was passed, for every
\* passed value including 0, or the default_ttl when no ttl is passed,
\* whether or not k was stored before.
C28_SetStoresPassedTTL ==
    \A k \in Keys, ttl \in TTLArgs, force \in BOOLEAN :
        LET after == Set(Manager, cache_config, k, SmallValue, ttl, force,
                         cache_now)[1]
        IN  /\ k \in KeysOf(after.cache)
            /\ EntryOf(after.cache, k) =
                  [value |-> SmallValue, created_at |-> cache_now,
                   accessed_at |-> cache_now, access_count |-> 1,
                   ttl |-> IF ttl = None THEN cache_config.default_ttl ELSE ttl]

(***************************************************************************)
(* Properties of the circuit breaker: the transitions                      *)
(***************************************************************************)
\* C29: the transition check of a call that finds the breaker CLOSED sets it
\* to OPEN exactly when the window holds at least failure_threshold failures
\* (and at least failure_threshold outcomes), whatever successes the window
\* holds besides; otherwise the breaker stays CLOSED, and a call whose check
\* left it CLOSED invokes the wrapped operation.
C29_OpensExactlyAtThreshold ==
    [][\A c \in Callers :
        /\ (CheckStep(c) /\ state = CLOSED) =>
              /\ state' = IF /\ stats.failure_count >= config.failure_threshold
                             /\ Len(stats.requests) >= config.failure_threshold
                          THEN OPEN ELSE CLOSED
              /\ stats' = stats
        /\ (DecisionStep(c) /\ state = CLOSED) =>
              (pc'[c] = "running" /\ state' = CLOSED)
      ]_vars

\* C29 witness: with failure_threshold 1 the check of a call has just opened
\* the breaker on a window holding a success and a failure.
C29_Witness ==
    /\ config.failure_threshold = 1
    /\ state = OPEN
    /\ last_state_change = now
    /\ stats.requests = <<TRUE, FALSE>>
    /\ \E c \in Callers : pc[c] = "checked"
    /\ last.op_event \in OpExceptions

\* C30: the state leaves CLOSED (for OPEN) and leaves OPEN (for HALF_OPEN)
\* only in the transition check at the start of a call; it leaves HALF_OPEN
\* only in the step that records the outcome of the wrapped operation.  A
\* call that finds the breaker CLOSED after its check ends with the breaker
\* still CLOSED, also when it records the failure that reaches the threshold.
C30_TransitionsOnlyAtCheckOrRecord ==
    [][/\ (state = CLOSED /\ state' # CLOSED) =>
             (state' = OPEN /\ \E c \in Callers : CheckStep(c))
       /\ (state = OPEN /\ state' # OPEN) =>
             (state' = HALF_OPEN /\ \E c \in Callers : CheckStep(c))
       /\ (state = HALF_OPEN /\ state' # HALF_OPEN) =>
             \E c \in Callers :
                /\ CompletionStep(c)
                /\ stats'.requests = Pushed(stats.requests, state' = CLOSED)
       /\ \A c \in Callers :
             (CompletionStep(c) /\ state = CLOSED) => state' = CLOSED
      ]_vars

\* C30 witness: the call that recorded the failure reaching a threshold of 2
\* has returned and the breaker is still CLOSED.
C30_Witness ==
    /\ config.failure_threshold = 2
    /\ state = CLOSED
    /\ lock_holder = NoCaller
    /\ \A c \in Callers : pc[c] = "idle"
    /\ last.invoked /\ ClassifiedEvent(last.op_event)
    /\ stats.failure_count >= config.failure_threshold
    /\ stats.last_failure_time = now

(***************************************************************************)
(* Properties of the circuit breaker: window, recovery, frame              *)
(***************************************************************************)
\* The last n elements of seq.
LastN(seq, n) == SubSeq(seq, Len(seq) - n + 1, Len(seq))

\* C31: the window never holds more than window_size outcomes; after k
\* recorded outcomes it holds exactly the most recent min(k, window_size) of
\* them in arrival order; 0 <= failure_count <= total_requests <= window_size;
\* failure_rate lies in [0, 1] and is 0 for an empty window.
C31_WindowHoldsMostRecent ==
    LET k == Len(wn_recorded)
        rate == FailureRate(wn_stats)
    IN  /\ Len(wn_stats.requests) <= WindowSize
        /\ wn_stats.requests = LastN(wn_recorded, Min(k, WindowSize))
        /\ 0 <= wn_stats.failure_count
        /\ wn_stats.failure_count <= TotalRequests(wn_stats)
        /\ TotalRequests(wn_stats) <= WindowSize
        /\ rate[2] > 0 /\ 0 <= rate[1] /\ rate[1] <= rate[2]
        /\ (TotalRequests(wn_stats) = 0 => rate[1] = 0)

\* C31 witness: more outcomes than the window holds have been recorded, the
\* oldest of them a failure, and the window holds the latest ones, a success
\* followed by a failure.
C31_Witness ==
    /\ Len(wn_recorded) > WindowSize
    /\ ~wn_recorded[1]
    /\ Len(wn_stats.requests) = WindowSize
    /\ wn_stats.requests[WindowSize - 1]
    /\ ~wn_stats.requests[WindowSize]
    /\ wn_stats.failure_count < Cardinality({i \in 1..Len(wn_recorded) : ~wn_recorded[i]})

\* C32 (as stated): when the success of a half-open probe closes the breaker,
\* the transition check of the next call, whenever it is made, leaves the
\* breaker CLOSED: the failures recorded before the recovery that are still in
\* the window do not reopen it.
C32_StaysClosedAfterRecovery ==
    \A c \in Callers :
        (pc[c] = "running" /\ state = HALF_OPEN) =>
            LET recovered == OnSuccess(Self, config, now) IN
            recovered.state = CLOSED =>
                \A t \in now..MaxTime :
                    CheckStateTransition(recovered, config, t).state = CLOSED

\* The transitions of the state diagram.
Edges ==
    {<<CLOSED, OPEN>>, <<OPEN, HALF_OPEN>>, <<HALF_OPEN, CLOSED>>,
     <<HALF_OPEN, OPEN>>}

\* C33: the breaker starts CLOSED; the state changes only along CLOSED->OPEN,
\* OPEN->HALF_OPEN, HALF_OPEN->CLOSED and HALF_OPEN->OPEN; last_state_change
\* is set to the current time by every step that changes the state and is
\* left alone by every other step.
C33_TransitionsAlongEdges ==
    /\ state = CLOSED
    /\ [][/\ (state' # state) =>
                (<<state, state'>> \in Edges /\ last_state_change' = now)
          /\ (state' = state) => (last_state_change' = last_state_change)
         ]_vars

\* C33 witness: the breaker went CLOSED -> OPEN -> HALF_OPEN -> CLOSED; the
\* failure that opened it is still in the window and the closing was stamped
\* at time 1.
C33_Witness ==
    /\ state = CLOSED
    /\ lock_holder = NoCaller
    /\ last.op_event = "returned"
    /\ stats.failure_count >= 1
    /\ now = 1
    /\ last_state_change = 1

\* C34: half_open_success_count is 0 whenever the state is CLOSED or OPEN,
\* and 0 <= half_open_success_count < success_threshold whenever the state is
\* HALF_OPEN; this holds between any two steps of the calls, and so between
\* calls.
C34_HalfOpenCountInRange ==
    /\ state \in {CLOSED, OPEN} => half_open_success_count = 0
    /\ state = HALF_OPEN =>
          /\ 0 <= half_open_success_count
          /\ half_open_success_count < config.success_threshold

\* C34 witness: between calls, one of the two successes needed to close a
\* HALF_OPEN breaker has been counted.
C34_Witness ==
    /\ state = HALF_OPEN
    /\ lock_holder = NoCaller
    /\ \A c \in Callers : pc[c] = "idle"
    /\ half_open_success_count = 1
    /\ config.success_threshold = 2

\* C35: when the operation raises an exception that matches neither
\* expected_exception nor the timeout, the caller gets that exception, the
\* window, the counts, the state, half_open_success_count and
\* last_state_change are unchanged, and the caller no longer holds the lock.
C35_UnclassifiedExceptionPropagates ==
    [][\A c \in Callers :
        (/\ CompletionStep(c)
         /\ last'.op_event \in OpExceptions
         /\ ~IsInstance(last'.op_event, config.expected_exception)) =>
            /\ last'.outcome = last'.op_event
            /\ last'.invoked
            /\ UNCHANGED <<state, stats, last_state_change,
                           half_open_success_count>>
            /\ pc'[c] = "idle"
            /\ lock_holder' # c
      ]_vars

\* C35 witness: a KeyError left a HALF_OPEN breaker that classifies only HTTP
\* errors; the one success counted so far is still counted.
C35_Witness ==
    /\ config.expected_exception = HTTPError
    /\ last.op_event = KeyError
    /\ last.outcome = KeyError
    /\ state = HALF_OPEN
    /\ half_open_success_count = 1
    /\ lock_holder = NoCaller

\* The breaker as call() leaves it when the caller that has just entered the
\* lock is rejected: the transition check, then the raise or the fallback.
AfterRejection(s, cfg, t) ==
    LET checked == CheckStateTransition(s, cfg, t)
    IN  IF cfg.fallback THEN FallbackFailed(checked, t)[1] ELSE checked

\* C36 (as stated): a call rejected because the breaker is OPEN leaves the
\* window, the counts, last_failure_time, the state and last_state_change as
\* they were before the call.
C36_RejectedCallChangesNothing ==
    \A c \in Callers :
        (pc[c] = "locked"
            /\ Rejects(CheckStateTransition(Self, config, now).state)) =>
            LET after == AfterRejection(Self, config, now)
            IN  /\ after.stats = stats
                /\ after.state = state
                /\ after.last_state_change = last_state_change

\* C36 (amended): no step of a call changes the window, the counts or
\* last_failure_time unless it ends the wrapped operation; a rejected call
\* leaves the state and last_state_change as its own transition check left
\* them, and a transition check that finds the breaker OPEN and leaves it
\* OPEN changes nothing.  (A check that finds the breaker CLOSED with the
\* threshold reached sets OPEN and stamps last_state_change.)
C36_RejectionAddsNothing ==
    [][\A c \in Callers :
        /\ (CheckStep(c) \/ DecisionStep(c) \/ FallbackEndStep(c)) =>
              stats' = stats
        /\ ((DecisionStep(c) /\ Rejects(state)) \/ FallbackEndStep(c)) =>
              /\ state' = OPEN
              /\ UNCHANGED <<state, last_state_change, half_open_success_count>>
        /\ (CheckStep(c) /\ state = OPEN /\ state' = OPEN) =>
              UNCHANGED <<last_state_change, half_open_success_count>>
        /\ (CheckStep(c) /\ state = CLOSED /\ state' = OPEN) =>
              last_state_change' = now
      ]_vars

\* C36 witness: a call was rejected after its own transition check had
\* opened the breaker at time 1 for a failure recorded at time 0.
C36_Witness ==
    /\ last.outcome = CircuitBreakerOpenException
    /\ lock_holder = NoCaller
    /\ state = OPEN
    /\ last_state_change = 1
    /\ stats.last_failure_time = 0

(***************************************************************************)
(* Properties of the cache: the bookkeeping of the strategies              *)
(***************************************************************************)
\* C37: after every completed operation, under LRU the recency list holds
\* each stored key exactly once and no other key; under LFU the keys of the
\* frequency map are the stored keys and every frequency is at least 1; under
\* the other strategies the recency list and the frequency map are empty.
C37_BookkeepingMatchesStore ==
    /\ cache_config.strategy = LRU =>
          /\ Elems(access_order) = KeysOf(cache)
          /\ Len(access_order) = Cardinality(KeysOf(cache))
    /\ cache_config.strategy = LFU =>
          /\ KeysOf(frequency_counter) = KeysOf(cache)
          /\ Len(frequency_counter) = Cardinality(KeysOf(cache))
          /\ \A i \in 1..Len(frequency_counter) : frequency_counter[i].count >= 1
    /\ cache_config.strategy \notin {LRU, LFU} =>
          (access_order = <<>> /\ frequency_counter = <<>>)

\* C37 witness: an LFU store of capacity 1 has evicted a key, and the key it
\* holds has been read since it was set.
C37_Witness ==
    /\ cache_config.strategy = LFU
    /\ metrics.evictions >= 1
    /\ Len(cache) = 1
    /\ Len(frequency_counter) = 1
    /\ frequency_counter[1].key = cache[1].key
    /\ frequency_counter[1].count >= 2

RECURSIVE QuantidadeNosItens(_, _)
QuantidadeNosItens(itens, p) ==
    IF itens = <<>> THEN 0
    ELSE (IF Head(itens).produto_id = p THEN Head(itens).quantidade ELSE 0)
         + QuantidadeNosItens(Tail(itens), p)

\* The quantidade of product p over all the accepted (stored) orders.
RECURSIVE QuantidadeAceita(_, _)
QuantidadeAceita(pedidos, p) ==
    IF pedidos = <<>> THEN 0
    ELSE QuantidadeNosItens(Head(pedidos).itens, p)
         + QuantidadeAceita(Tail(pedidos), p)

\* C39 (as stated): after any sequence of orders the estoque of each product
\* is not negative and equals its initial estoque minus the total quantidade
\* of that product over all accepted orders, also when an order lists the
\* product on more than one line.
C39_StockIsInitialMinusAccepted ==
    \A p \in Produtos :
        /\ ec_estoque[p] >= 0
        /\ ec_estoque[p] = MaxEstoque - QuantidadeAceita(ec_pedidos, p)

=============================================================================
